---- MODULE Spec2Model ----
(***************************************************************************)
(* A model of the Aime multi-agent prototype: the progress tracker         *)
(* (progress.py), the planner's plan parsing (planner.py, utils.py), the   *)
(* actor's ReAct loop (actor.py) and the orchestrator (main.py).           *)
(***************************************************************************)
EXTENDS Integers, Sequences, FiniteSets, TLC

(***************************************************************************)
(* Bounds of the model.                                                    *)
(***************************************************************************)
\* Tracker calls in one behaviour.
MaxOps == 4
\* Store writes that may fail in one behaviour.
MaxStoreFailures == 1
\* Entries of a plan's task list in a generator response.
MaxTasks == 2
\* Lines of a generator response that is not JSON.
MaxLines == 2
\* Calls of execute on one actor in one behaviour.
MaxExecutions == 2
\* Calls of plan that return, of one planner that is called again and again.
MaxPlans == 11
\* Calls of execute of one actor that is called again and again.
MaxLogged == 22
\* The largest configured number of attempts of generate.
MaxRetries == 4
\* Calls of generate of one client.
MaxGenerations == 2
\* Tracker calls of callers that create tasks a millisecond apart.
MaxCalls == 6

\* config.MAX_ITERATIONS, by default.
MAX_ITERATIONS == 15
\* config.MAX_RETRIES, by default.
MAX_RETRIES == 3

(***************************************************************************)
(* Time.  datetime.now() has microsecond resolution while generate_task_id *)
(* truncates time.time() to milliseconds, so several clock readings fall   *)
(* into one millisecond.  The model's clock counts ticks; TicksPerMs ticks *)
(* make one millisecond, every tracker call takes one tick, and the        *)
(* tracker is constructed at any tick of a millisecond (epoch).            *)
(***************************************************************************)
TicksPerMs == 2

\* Python's None in an integer-valued field (start_time, end_time,
\* current_task, an omitted progress argument).
Null == -1
\* Python's None in a string-valued field or argument.
None == "None"

Agents == {"analyst_1", "executor_1"}

\* generate_task_id: int(time.time() * 1000)
generate_task_id(clock) == clock \div TicksPerMs

\* The last tick a behaviour reaches.
MaxClock == TicksPerMs - 1 + MaxOps

\* An identifier no create_task call returns within the clock's bound.
NoSuchTask == generate_task_id(MaxClock) + 1

Terminal == {"completed", "failed", "cancelled"}
Statuses == {"pending", "running"} \cup Terminal

\* The argument lists <<progress, status, result, error_message>> callers pass
\* to update_progress: nothing at all, a progress alone (below, inside and above
\* the range), a status alone, a result or an error alone, and the combined
\* call main.py makes for a partly successful goal.
UpdateArgs ==
    {<<Null, None, None, None>>}
    \cup {<<p, None, None, None>> : p \in {-5, 150}}
    \cup {<<Null, s, None, None>> : s \in Statuses}
    \cup {<<50, "completed", "result", None>>}

VARIABLES
    tasks,         \* SimpleProgressManager.tasks: task id -> task record
    agents,        \* SimpleProgressManager.agents: agent id -> agent record
    system_stats,  \* SimpleProgressManager.system_stats
    disk,          \* the state file
    now,           \* the clock, in ticks
    epoch,         \* the tick at which the tracker was constructed
    storeFailures, \* store writes that failed so far
    save_ok,       \* what the tracker's last save_json_file returned (true before any)
    lastOp,        \* the last tracker call: its name, arguments and return value
    callers,       \* the threads inside assign_task: position, arguments, return value
    planning_history, \* SimpleDynamicPlanner.planning_history
    plan_call,     \* the last call of plan: its arguments, template and response
    plan_result,   \* what the last call of plan returned, or that it raised
    plan_count,    \* the calls of plan that returned so far
    llm,           \* the LLMClient: config.MAX_RETRIES and its call of generate
    actor_status,  \* SimpleActor.status
    current_task,  \* SimpleActor.current_task
    execution_history, \* SimpleActor.execution_history
    exec_pc,       \* where the actor is: outside execute ("idle") or in its loop
    exec_calls,    \* calls of execute so far
    iteration,     \* the loop variable of _react_loop
    steps,         \* the steps list of _react_loop
    reply,         \* the last response the generator gave the actor
    observation,   \* the last action result
    exec_result,   \* what the last call of execute returned
    generate_calls, \* requests to the generator in the current call of execute
    orch_pc,       \* where execute_task is
    generate_failed, \* whether the call of generate made for planning failed
    main_task_id,  \* execute_task's main_task_id
    subtask_id,    \* execute_task's subtask_id
    subtask_index, \* the position of the loop over the plan's tasks, from 1
    actor_id,      \* the identifier of the actor the factory handed out last
    results,       \* execute_task's results: the success flag of each entry
    created_agents, \* SimpleActorFactory.created_agents
    team,          \* the team of execute_multi_agent_task, in the order of its keys
    factory_call,  \* the last call of the factory: its arguments and what it returned
    orch_result    \* what execute_task returned

trackerVars == <<tasks, agents, system_stats, disk, now, epoch, storeFailures, save_ok,
                 lastOp, callers>>

\* The identifiers callers pass: those of the collection and an unknown one.
TaskArgs == DOMAIN tasks \cup {NoSuchTask}

plannerVars == <<planning_history, plan_call, plan_result, plan_count, llm>>

actorVars == <<actor_status, current_task, execution_history, exec_pc, exec_calls,
               iteration, steps, reply, observation, exec_result,
               generate_calls>>

orchVars == <<orch_pc, team, factory_call, generate_failed, main_task_id, subtask_id, subtask_index,
              actor_id, results, created_agents, orch_result>>

EmptyMap == [x \in {} |-> 0]

Put(f, k, v) == [x \in DOMAIN f \cup {k} |-> IF x = k THEN v ELSE f[x]]

(***************************************************************************)
(* The state file.  save_json_file opens the file for writing (truncating  *)
(* it) and dumps the whole snapshot; it returns False when open or dump    *)
(* raises, leaving the file as it was (open failed) or cut short (dump     *)
(* failed).  load_json_file returns {} for a missing or malformed file.    *)
(***************************************************************************)
\* JSON values.  A string the model writes as an integer (a task identifier
\* 'task_<ms>', an ISO time) is a JSON string that carries the integer.
JNull == [j |-> "null", n |-> 0, s |-> ""]
JNumber(n) == [j |-> "number", n |-> n, s |-> ""]
JString(str) == [j |-> "string", n |-> 0, s |-> str]
JText(n) == [j |-> "string", n |-> n, s |-> "text"]

\* json.dump of a field that holds None or a string, None or a string written
\* as an integer, and a list of such strings; json.load of the same.
dump_str(v) == IF v = None THEN JNull ELSE JString(v)
load_str(j) == IF j.j = "null" THEN None ELSE j.s
dump_text(v) == IF v = Null THEN JNull ELSE JText(v)
load_text(j) == IF j.j = "null" THEN Null ELSE j.n
dump_list(l) == [i \in 1..Len(l) |-> dump_text(l[i])]
load_list(a) == [i \in 1..Len(a) |-> load_text(a[i])]

\* json.dump and json.load of the task collection: an object keyed by the
\* task identifiers, which are strings and stay the keys they are.
dump_tasks(ts) ==
    [t \in DOMAIN ts |->
        [status |-> dump_str(ts[t].status),
         assigned_agent |-> dump_str(ts[t].assigned_agent),
         progress |-> JNumber(ts[t].progress),
         start_time |-> dump_text(ts[t].start_time),
         end_time |-> dump_text(ts[t].end_time),
         result |-> dump_str(ts[t].result),
         error_message |-> dump_str(ts[t].error_message),
         created_time |-> dump_text(ts[t].created_time)]]

load_tasks(doc) ==
    [t \in DOMAIN doc |->
        [status |-> load_str(doc[t].status),
         assigned_agent |-> load_str(doc[t].assigned_agent),
         progress |-> doc[t].progress.n,
         start_time |-> load_text(doc[t].start_time),
         end_time |-> load_text(doc[t].end_time),
         result |-> load_str(doc[t].result),
         error_message |-> load_str(doc[t].error_message),
         created_time |-> load_text(doc[t].created_time)]]

\* The same of the agent collection.
dump_agents(ags) ==
    [a \in DOMAIN ags |->
        [status |-> dump_str(ags[a].status),
         current_task |-> dump_text(ags[a].current_task),
         assigned_tasks |-> dump_list(ags[a].assigned_tasks),
         completed_tasks |-> dump_list(ags[a].completed_tasks),
         failed_tasks |-> dump_list(ags[a].failed_tasks),
         created_time |-> dump_text(ags[a].created_time)]]

load_agents(doc) ==
    [a \in DOMAIN doc |->
        [status |-> load_str(doc[a].status),
         current_task |-> load_text(doc[a].current_task),
         assigned_tasks |-> load_list(doc[a].assigned_tasks),
         completed_tasks |-> load_list(doc[a].completed_tasks),
         failed_tasks |-> load_list(doc[a].failed_tasks),
         created_time |-> load_text(doc[a].created_time)]]

\* The same of the statistics, an object of numbers.
dump_stats(stats) == [k \in DOMAIN stats |-> JNumber(stats[k])]
load_stats(doc) == [k \in DOMAIN doc |-> doc[k].n]

\* Mutant: a snapshot that leaves the agent collection out.
SnapshotWithoutAgents(ts, ags, stats, time) ==
    [state |-> "written", tasks |-> dump_tasks(ts), agents |-> EmptyMap,
     system_stats |-> dump_stats(stats), timestamp |-> time]

\* The document _save_state hands to save_json_file, as json.dump writes it.
Snapshot(ts, ags, stats, time) ==
    [state |-> "written", tasks |-> dump_tasks(ts), agents |-> dump_agents(ags),
     system_stats |-> dump_stats(stats), timestamp |-> time]

NoFile == [state |-> "absent", tasks |-> EmptyMap, agents |-> EmptyMap,
           system_stats |-> EmptyMap, timestamp |-> Null]

Malformed == [state |-> "malformed", tasks |-> EmptyMap, agents |-> EmptyMap,
              system_stats |-> EmptyMap, timestamp |-> Null]

\* _save_state: the outcomes of one write of the snapshot.
SaveOutcomes(ts, ags, stats, time) ==
    {<<Snapshot(ts, ags, stats, time), 0>>}
    \cup (IF storeFailures < MaxStoreFailures
          THEN {<<disk, 1>>, <<Malformed, 1>>}
          ELSE {})

\* Mutant: the snapshot taken of the collections as they were before the
\* operation.
SaveStale(ts, ags, stats, time) ==
    \E out \in SaveOutcomes(tasks, agents, system_stats, time) :
        /\ disk' = out[1]
        /\ storeFailures' = storeFailures + out[2]
        /\ save_ok' = (out[2] = 0)

_save_state(ts, ags, stats, time) ==
    \E out \in SaveOutcomes(ts, ags, stats, time) :
        /\ disk' = out[1]
        /\ storeFailures' = storeFailures + out[2]
        /\ save_ok' = (out[2] = 0)

NoSave == UNCHANGED <<disk, storeFailures, save_ok>>

\* The callers of the tracker specification call while their budget lasts.
CanCall == now - epoch < MaxOps

\* Every tracker call takes one tick.  These calls run from entry to return
\* in one step, by a caller that is none of the threads of callers.
Tick == now' = now + 1 /\ UNCHANGED <<epoch, callers>>

CalledWith(op, t, a, r, progress) ==
    lastOp' = [op |-> op, task |-> t, agent |-> a, ret |-> r, progress |-> progress]

Called(op, t, a, r) == CalledWith(op, t, a, r, Null)

(***************************************************************************)
(* create_task                                                             *)
(***************************************************************************)
NewTask(time) ==
    [status |-> "pending", assigned_agent |-> None, progress |-> 0,
     start_time |-> Null, end_time |-> Null, result |-> None,
     error_message |-> None, created_time |-> time]

\* Mutant: a create_task that drops the new record when the write fails.
CreateTaskRollsBack ==
    LET task_id == generate_task_id(now)
        ts == Put(tasks, task_id, NewTask(now))
        stats == [system_stats EXCEPT !.total_tasks = @ + 1]
    IN  /\ \E out \in SaveOutcomes(ts, agents, stats, now) :
              /\ disk' = out[1]
              /\ storeFailures' = storeFailures + out[2]
              /\ save_ok' = (out[2] = 0)
              /\ tasks' = IF out[2] = 0 THEN ts ELSE tasks
              /\ system_stats' = IF out[2] = 0 THEN stats ELSE system_stats
        /\ UNCHANGED agents
        /\ Called("create_task", task_id, None, "task_id")
        /\ Tick

create_task ==
    LET task_id == generate_task_id(now)
        ts == Put(tasks, task_id, NewTask(now))
        stats == [system_stats EXCEPT !.total_tasks = @ + 1]
    IN  /\ tasks' = ts
        /\ system_stats' = stats
        /\ UNCHANGED agents
        /\ _save_state(ts, agents, stats, now)
        /\ Called("create_task", task_id, None, "task_id")
        /\ Tick

(***************************************************************************)
(* assign_task                                                             *)
(***************************************************************************)
\* Mutant: the status check of assign_task left out.
AssignAllowedAnyStatus(ts, task_id) ==
    task_id \in DOMAIN ts

\* The two early returns of assign_task.
AssignAllowed(ts, task_id) ==
    /\ task_id \in DOMAIN ts
    /\ ts[task_id].status = "pending"

AssignedTask(task, agent_id, time) ==
    [task EXCEPT !.assigned_agent = agent_id, !.status = "running",
                 !.start_time = time]

NewAgent(task_id, time) ==
    [status |-> "active", current_task |-> task_id, assigned_tasks |-> <<>>,
     completed_tasks |-> <<>>, failed_tasks |-> <<>>, created_time |-> time]

\* Mutant: the agent's status left as it was.
AssignedAgentKeepsStatus(agent, task_id) ==
    [agent EXCEPT !.current_task = task_id,
                  !.assigned_tasks = Append(@, task_id)]

AssignedAgent(agent, task_id) ==
    [agent EXCEPT !.current_task = task_id, !.status = "working",
                  !.assigned_tasks = Append(@, task_id)]

assign_task(task_id, agent_id) ==
    /\ IF ~AssignAllowed(tasks, task_id)
       THEN /\ UNCHANGED <<tasks, agents, system_stats>>
            /\ NoSave
            /\ Called("assign_task", task_id, agent_id, "False")
       ELSE LET ts == [tasks EXCEPT ![task_id] = AssignedTask(@, agent_id, now)]
                fresh == agent_id \notin DOMAIN agents
                ags0 == IF fresh THEN Put(agents, agent_id, NewAgent(task_id, now))
                        ELSE agents
                stats == IF fresh
                         THEN [system_stats EXCEPT !.active_agents = @ + 1]
                         ELSE system_stats
                ags == [ags0 EXCEPT ![agent_id] = AssignedAgent(@, task_id)]
            IN  /\ tasks' = ts
                /\ agents' = ags
                /\ system_stats' = stats
                /\ _save_state(ts, ags, stats, now)
                /\ Called("assign_task", task_id, agent_id, "True")
    /\ Tick

(***************************************************************************)
(* assign_task called from threads: the method holds no lock, so a thread   *)
(* may be suspended between any two of its statements.  The call is cut    *)
(* into the two tests, the writes to the task, the writes to the agent,    *)
(* and the save with the return.                                           *)
(***************************************************************************)
Callers == {"thread_1", "thread_2"}

\* A thread that is not in assign_task and has not called it.
IdleCaller == [pc |-> "idle", task_id |-> Null, agent_id |-> None, ret |-> None]

\* A thread enters assign_task(task_id, agent_id).
AssignCall(c, task_id, agent_id) ==
    /\ callers[c].pc = "idle"
    /\ callers' = [callers EXCEPT ![c] = [pc |-> "check", task_id |-> task_id,
                                          agent_id |-> agent_id, ret |-> None]]
    /\ now' = now + 1
    /\ UNCHANGED <<tasks, agents, system_stats, epoch, lastOp>>
    /\ NoSave

\* progress.py lines 76-83: the two tests and their early returns.
AssignCheck(c) ==
    LET call == callers[c]
    IN  /\ call.pc = "check"
        /\ IF AssignAllowed(tasks, call.task_id)
           THEN /\ callers' = [callers EXCEPT ![c].pc = "write_task"]
                /\ UNCHANGED lastOp
           ELSE /\ callers' = [callers EXCEPT ![c].pc = "done", ![c].ret = "False"]
                /\ Called("assign_task", call.task_id, call.agent_id, "False")
        /\ now' = now + 1
        /\ UNCHANGED <<tasks, agents, system_stats, epoch>>
        /\ NoSave

\* progress.py lines 85-88: the writes to the task record.
AssignWriteTask(c) ==
    LET call == callers[c]
    IN  /\ call.pc = "write_task"
        /\ tasks' = [tasks EXCEPT ![call.task_id] = AssignedTask(@, call.agent_id, now)]
        /\ callers' = [callers EXCEPT ![c].pc = "write_agent"]
        /\ now' = now + 1
        /\ UNCHANGED <<agents, system_stats, epoch, lastOp>>
        /\ NoSave

\* progress.py lines 91-107: the agent record, created when absent.
AssignWriteAgent(c) ==
    LET call == callers[c]
        fresh == call.agent_id \notin DOMAIN agents
        ags0 == IF fresh
                THEN Put(agents, call.agent_id, NewAgent(call.task_id, now))
                ELSE agents
    IN  /\ call.pc = "write_agent"
        /\ agents' = [ags0 EXCEPT ![call.agent_id] = AssignedAgent(@, call.task_id)]
        /\ system_stats' = IF fresh
                           THEN [system_stats EXCEPT !.active_agents = @ + 1]
                           ELSE system_stats
        /\ callers' = [callers EXCEPT ![c].pc = "save"]
        /\ now' = now + 1
        /\ UNCHANGED <<tasks, epoch, lastOp>>
        /\ NoSave

\* progress.py lines 109-112: _save_state and return True.
AssignReturn(c) ==
    LET call == callers[c]
    IN  /\ call.pc = "save"
        /\ _save_state(tasks, agents, system_stats, now)
        /\ callers' = [callers EXCEPT ![c].pc = "done", ![c].ret = "True"]
        /\ Called("assign_task", call.task_id, call.agent_id, "True")
        /\ now' = now + 1
        /\ UNCHANGED <<tasks, agents, system_stats, epoch>>

(***************************************************************************)
(* update_progress and the convenience calls into it                       *)
(***************************************************************************)
\* Mutant: only the upper end clamped.
ClampAbove(progress) ==
    IF progress < 100 THEN progress ELSE 100

\* max(0.0, min(100.0, progress))
Clamp(progress) ==
    LET lo == IF progress < 100 THEN progress ELSE 100
    IN  IF lo > 0 THEN lo ELSE 0

\* Mutant: the end_time check of the terminal bookkeeping left out.
EntersTerminalAlways(task, status) ==
    status \in Terminal

\* progress.py line 135: the guard of the terminal bookkeeping.
EntersTerminal(task, status) ==
    /\ status \in Terminal
    /\ task.end_time = Null

UpdatedTask(task, progress, status, result, error_message, time) ==
    [task EXCEPT
        !.progress = IF progress # Null THEN Clamp(progress) ELSE @,
        !.status = IF status # None THEN status ELSE @,
        !.end_time = IF status # None /\ EntersTerminal(task, status) THEN time ELSE @,
        !.result = IF result # None THEN result ELSE @,
        !.error_message = IF error_message # None THEN error_message ELSE @]

\* Mutant: the counters incremented on every terminal update.
UpdatedStatsEveryTime(stats, task, status) ==
    IF status = "completed" THEN [stats EXCEPT !.completed_tasks = @ + 1]
    ELSE IF status = "failed" THEN [stats EXCEPT !.failed_tasks = @ + 1]
    ELSE stats

UpdatedStats(stats, task, status) ==
    IF status # None /\ EntersTerminal(task, status)
    THEN IF status = "completed" THEN [stats EXCEPT !.completed_tasks = @ + 1]
         ELSE IF status = "failed" THEN [stats EXCEPT !.failed_tasks = @ + 1]
         ELSE stats
    ELSE stats

\* Mutant: a released agent left with the status it had.
ReleasedAgentKeepsStatus(agent, task_id, status) ==
    [agent EXCEPT
        !.current_task = Null,
        !.completed_tasks = IF status = "completed" THEN Append(@, task_id) ELSE @,
        !.failed_tasks = IF status = "failed" THEN Append(@, task_id) ELSE @]

ReleasedAgent(agent, task_id, status) ==
    [agent EXCEPT
        !.current_task = Null,
        !.status = "idle",
        !.completed_tasks = IF status = "completed" THEN Append(@, task_id) ELSE @,
        !.failed_tasks = IF status = "failed" THEN Append(@, task_id) ELSE @]

\* Mutant: the agent's lists updated on every terminal update.
UpdatedAgentsEveryTime(ags, task, task_id, status) ==
    IF /\ status # None
       /\ status \in Terminal
       /\ task.assigned_agent # None
       /\ task.assigned_agent \in DOMAIN ags
    THEN [ags EXCEPT ![task.assigned_agent] = ReleasedAgent(@, task_id, status)]
    ELSE ags

UpdatedAgents(ags, task, task_id, status) ==
    IF /\ status # None
       /\ EntersTerminal(task, status)
       /\ task.assigned_agent # None
       /\ task.assigned_agent \in DOMAIN ags
    THEN [ags EXCEPT ![task.assigned_agent] = ReleasedAgent(@, task_id, status)]
    ELSE ags

UpdateProgress(op, task_id, progress, status, result, error_message) ==
    /\ IF task_id \notin DOMAIN tasks
       THEN /\ UNCHANGED <<tasks, agents, system_stats>>
            /\ NoSave
            /\ CalledWith(op, task_id, None, "False", progress)
       ELSE LET task == tasks[task_id]
                updated == \/ progress # Null
                           \/ status # None
                           \/ result # None
                           \/ error_message # None
                ts == [tasks EXCEPT ![task_id] =
                          UpdatedTask(task, progress, status, result,
                                      error_message, now)]
                ags == UpdatedAgents(agents, task, task_id, status)
                stats == UpdatedStats(system_stats, task, status)
            IN  /\ tasks' = ts
                /\ agents' = ags
                /\ system_stats' = stats
                /\ IF updated THEN _save_state(ts, ags, stats, now) ELSE NoSave
                /\ CalledWith(op, task_id, None,
                              IF updated THEN "True" ELSE "False", progress)
    /\ Tick

update_progress ==
    \E task_id \in TaskArgs, args \in UpdateArgs :
        UpdateProgress("update_progress", task_id, args[1], args[2], args[3],
                       args[4])

complete_task ==
    \E task_id \in TaskArgs :
        UpdateProgress("complete_task", task_id, 100, "completed", "result", None)

fail_task ==
    \E task_id \in TaskArgs :
        UpdateProgress("fail_task", task_id, Null, "failed", None, "error")

cancel_task ==
    \E task_id \in TaskArgs :
        UpdateProgress("cancel_task", task_id, Null, "cancelled", None, "error")

assign ==
    \E task_id \in TaskArgs, agent_id \in Agents : assign_task(task_id, agent_id)

(***************************************************************************)
(* clear_completed_tasks                                                   *)
(***************************************************************************)
clear_completed_tasks ==
    LET completed == {t \in DOMAIN tasks : tasks[t].status = "completed"}
        ts == [t \in DOMAIN tasks \ completed |-> tasks[t]]
    IN  /\ tasks' = ts
        /\ UNCHANGED <<agents, system_stats>>
        /\ _save_state(ts, agents, system_stats, now)
        /\ Called("clear_completed_tasks", Cardinality(completed), None, "count")
        /\ Tick

(***************************************************************************)
(* SimpleProgressManager.__init__ on the state file of the running         *)
(* tracker: the collections of the new tracker replace those of the old.   *)
(***************************************************************************)
\* The statistics a tracker is constructed with.
DefaultStats ==
    [total_tasks |-> 0, completed_tasks |-> 0, failed_tasks |-> 0,
     active_agents |-> 0]

\* load_json_file: the document of the file, {} when the file is absent or
\* is not JSON.
load_json_file(file) ==
    IF file.state = "written"
    THEN [empty |-> FALSE, tasks |-> file.tasks, agents |-> file.agents,
          system_stats |-> file.system_stats]
    ELSE [empty |-> TRUE, tasks |-> EmptyMap, agents |-> EmptyMap,
          system_stats |-> EmptyMap]

\* _load_state: the collections taken from a document that is not empty; the
\* statistics of the document laid over the defaults.
_load_state(file) ==
    LET state_data == load_json_file(file)
        loaded == load_stats(state_data.system_stats)
    IN  IF ~state_data.empty
        THEN [tasks |-> load_tasks(state_data.tasks),
              agents |-> load_agents(state_data.agents),
              system_stats |-> [k \in DOMAIN DefaultStats |->
                                   IF k \in DOMAIN loaded THEN loaded[k]
                                   ELSE DefaultStats[k]]]
        ELSE [tasks |-> EmptyMap, agents |-> EmptyMap, system_stats |-> DefaultStats]

__init__ ==
    LET new == _load_state(disk)
    IN  /\ tasks' = new.tasks
        /\ agents' = new.agents
        /\ system_stats' = new.system_stats
        /\ save_ok' = TRUE
        /\ UNCHANGED <<disk, storeFailures>>
        /\ Called("__init__", Null, None, None)
        /\ Tick

(***************************************************************************)
(* The tracker driven by arbitrary callers.                                *)
(***************************************************************************)
TrackerInit ==
    /\ tasks = EmptyMap
    /\ agents = EmptyMap
    /\ system_stats = [total_tasks |-> 0, completed_tasks |-> 0,
                       failed_tasks |-> 0, active_agents |-> 0]
    /\ disk = NoFile
    /\ epoch \in 0..(TicksPerMs - 1)
    /\ now = epoch
    /\ storeFailures \in {0, MaxStoreFailures}
    /\ save_ok = TRUE
    /\ lastOp = [op |-> "init", task |-> Null, agent |-> None, ret |-> None,
                 progress |-> Null]
    /\ callers = [c \in Callers |-> IdleCaller]

vars == <<trackerVars, plannerVars, actorVars, orchVars>>

(***************************************************************************)
(* Generator responses, as the planner reads them.                         *)
(*                                                                         *)
(* A line of text is known by its length after strip(), by whether it      *)
(* starts with '#', and by the tool keywords it contains.                  *)
(***************************************************************************)
Line(name, len, comment, kw) ==
    [name |-> name, len |-> len, comment |-> comment, kw |-> kw]

BlankLine == Line("blank", 0, FALSE, {})
ShortLine == Line("short", 5, FALSE, {"search"})
TenLine == Line("ten", 10, FALSE, {})
CommentLine == Line("comment", 20, TRUE, {"search"})
StepLine == Line("step", 15, FALSE, {"calculator", "data_analysis"})
LongLine == Line("long", 250, FALSE, {"file_ops"})
\* The text LLMClient.generate returns when every attempt failed.
LLMErrorLine == Line("llm_error", 20, FALSE, {})

LineKinds ==
    {BlankLine, ShortLine, TenLine, CommentLine, StepLine, LongLine, LLMErrorLine}

SeqsUpTo(S, n) == UNION {[1..k -> S] : k \in 0..n}

\* A description: where its text comes from, its length, its keywords, and
\* whether it is a string at all.
Desc(of, len, kw, isStr) == [of |-> of, len |-> len, kw |-> kw, isStr |-> isStr]

NoDesc == Desc("absent", 0, {}, FALSE)
GivenDesc == Desc("given", 12, {"calculator", "data_analysis"}, TRUE)
NumberDesc == Desc("number", 0, {}, FALSE)

ItemKeys == {"id", "description", "tool_type", "priority"}
TopKeys == {"error", "tasks", "strategy", "estimated_time"}

\* An entry of a tasks list: an object with some of the four keys, or a value
\* that is no object (a string or a list, known by which of the four names
\* it contains; a number, boolean or null).
Item(kind, has, description) == [kind |-> kind, has |-> has, description |-> description]

ObjectItems ==
    {Item("object", has, IF "description" \in has THEN GivenDesc ELSE NoDesc) :
        has \in {{}, {"description"}, ItemKeys, {"id", "tool_type", "priority"}}}
    \cup {Item("object", {"description"}, NumberDesc),
          Item("object", {"description", "tool_type"}, NumberDesc)}

OtherItems ==
    {Item("string", {}, NoDesc), Item("string", ItemKeys, NoDesc),
     Item("scalar", {}, NoDesc)}

Items == ObjectItems \cup OtherItems

\* The value under "tasks": a list of entries; a string (iterated by character)
\* or an object (iterated by key), empty or not; a number, boolean or null.
TasksValue(kind, items) == [kind |-> kind, items |-> items]

NoTasks == TasksValue("absent", <<>>)

TasksValues ==
    {TasksValue("array", items) : items \in SeqsUpTo(Items, MaxTasks)}
    \cup {TasksValue(k, items) :
            k \in {"string", "object"},
            items \in {<<>>, <<Item("string", {}, NoDesc)>>}}
    \cup {TasksValue("scalar", <<>>)}

\* A JSON value: an object with some of the four top-level keys; a list or a
\* string, known by which of the four names it contains; a scalar.
Json(kind, has, tasksValue) == [kind |-> kind, has |-> has, tasks |-> tasksValue]

JsonObjects ==
    {Json("object", has, NoTasks) : has \in SUBSET (TopKeys \ {"tasks"})}
    \cup {Json("object", has \cup {"tasks"}, tv) :
            has \in SUBSET (TopKeys \ {"tasks"}), tv \in TasksValues}

JsonOthers ==
    {Json(k, has, NoTasks) :
        k \in {"array", "string"},
        has \in {{}, {"error"}, TopKeys \ {"error"}}}
    \cup {Json("scalar", {}, NoTasks)}

NoJson == Json("none", {}, NoTasks)

\* A text: valid JSON as a whole ("json"), not JSON but with a JSON object
\* between its first '{' and its last '}' ("embedded"), or neither ("plain").
Text(form, json, lines) == [form |-> form, json |-> json, lines |-> lines]

\* The lines of a text that is JSON as a whole: one long line, or
\* pretty-printed short ones.
JsonLayouts == {<<LongLine>>, <<ShortLine, TenLine, ShortLine>>}

\* The lines of a text that holds a JSON object after a sentence of prose.
EmbeddedLayout == <<StepLine, LongLine>>

Texts ==
    {Text("plain", NoJson, lines) : lines \in SeqsUpTo(LineKinds, MaxLines) \ {<<>>}}
    \cup {Text("json", j, lines) : j \in JsonObjects \cup JsonOthers, lines \in JsonLayouts}
    \cup {Text("embedded", j, EmbeddedLayout) : j \in JsonObjects}

RECURSIVE SumLen(_)
SumLen(lines) ==
    IF lines = <<>> THEN 0 ELSE Head(lines).len + SumLen(Tail(lines))

\* len(text): the lines and the newlines between them.
TextLen(text) == SumLen(text.lines) + Len(text.lines) - 1

Min(a, b) == IF a < b THEN a ELSE b

(***************************************************************************)
(* safe_json_parse                                                         *)
(***************************************************************************)
\* The dictionary safe_json_parse returns when nothing parses.
ParseFailure == Json("object", {"error"}, NoTasks)

safe_json_parse(text) ==
    IF text.form \in {"json", "embedded"} THEN text.json ELSE ParseFailure

(***************************************************************************)
(* The planner: _guess_tool_type, _fallback_parse,                         *)
(* _validate_and_enhance_plan, _parse_plan                                 *)
(***************************************************************************)
_guess_tool_type(kw) ==
    IF "search" \in kw THEN "search"
    ELSE IF "calculator" \in kw THEN "calculator"
    ELSE IF "data_analysis" \in kw THEN "data_analysis"
    ELSE IF "file_ops" \in kw THEN "file_ops"
    ELSE "general"

\* A task of a plan the planner returns.
PlanTask(kind, has, id, description, tool_type, priority) ==
    [kind |-> kind, has |-> has, id |-> id, description |-> description,
     tool_type |-> tool_type, priority |-> priority]

Plan(outcome, tasksKind, planTasks, strategy, estimated_time) ==
    [outcome |-> outcome, tasksKind |-> tasksKind, tasks |-> planTasks,
     strategy |-> strategy, estimated_time |-> estimated_time]

\* plan() left by an exception.
Raised == Plan("raised", "absent", <<>>, None, Null)

\* Mutant: a line of ten characters taken as a task.
QualifiesFromTen(line) == line.len > 0 /\ ~line.comment /\ line.len >= 10

\* The loop of _fallback_parse over the lines.
Qualifies(line) == line.len > 0 /\ ~line.comment /\ line.len > 10

RECURSIVE FallbackTasks(_, _)
FallbackTasks(lines, done) ==
    IF lines = <<>> THEN done
    ELSE LET line == Head(lines)
         IN  IF Qualifies(line)
             THEN FallbackTasks(Tail(lines),
                    Append(done,
                        PlanTask("object", ItemKeys,
                                 "task_" \o ToString(Len(done) + 1),
                                 Desc(line.name, Min(line.len, 200), line.kw, TRUE),
                                 _guess_tool_type(line.kw), "normal")))
             ELSE FallbackTasks(Tail(lines), done)

_fallback_parse(response) ==
    LET found == FallbackTasks(response.lines, <<>>)
        whole == PlanTask("object", ItemKeys, "task_1",
                          Desc("response", Min(TextLen(response), 200), {}, TRUE),
                          "general", "normal")
    IN  Plan("returned", "array",
             IF found # <<>> THEN found ELSE <<whole>>,
             "sequential",
             IF found # <<>> THEN Len(found) * 30 ELSE 30)

\* Whether the loop body of _validate_and_enhance_plan raises on an entry.
ItemRaises(item) ==
    CASE item.kind = "scalar" -> TRUE
      [] item.kind \in {"string", "array"} -> item.has # ItemKeys
      [] OTHER -> /\ "tool_type" \notin item.has
                  /\ "description" \in item.has
                  /\ ~item.description.isStr

DefaultDesc(i) == Desc("subtask_" \o ToString(i), 5, {}, TRUE)

EnhancedItem(item, i) ==
    IF item.kind # "object"
    THEN PlanTask(item.kind, item.has, None, NoDesc, None, None)
    ELSE LET description == IF "description" \in item.has THEN item.description
                            ELSE DefaultDesc(i)
         IN  PlanTask("object", ItemKeys,
                      IF "id" \in item.has THEN "given" ELSE "task_" \o ToString(i),
                      description,
                      IF "tool_type" \in item.has THEN "given"
                      ELSE _guess_tool_type(description.kw),
                      IF "priority" \in item.has THEN "given" ELSE "normal")

_validate_and_enhance_plan(parsed) ==
    IF parsed.kind # "object" THEN Raised
    ELSE LET tv == IF "tasks" \in parsed.has THEN parsed.tasks
                   ELSE TasksValue("array", <<>>)
         IN  IF tv.kind = "scalar" THEN Raised
             ELSE IF \E i \in 1..Len(tv.items) : ItemRaises(tv.items[i]) THEN Raised
             ELSE Plan("returned", tv.kind,
                       [i \in 1..Len(tv.items) |-> EnhancedItem(tv.items[i], i)],
                       IF "strategy" \in parsed.has THEN "given" ELSE "sequential",
                       IF "estimated_time" \in parsed.has THEN Null
                       ELSE Len(tv.items) * 30)

_parse_plan(response) ==
    LET parsed == safe_json_parse(response)
    IN  IF parsed.kind = "scalar" THEN Raised
        ELSE IF "error" \in parsed.has THEN _fallback_parse(response)
        ELSE _validate_and_enhance_plan(parsed)

(***************************************************************************)
(* Planner.plan                                                            *)
(***************************************************************************)
\* The truth value of an optional string: None and "" are false.
Truthy(text) == text # None /\ text # ""

\* Mutant: the state looked at before the feedback.
SelectTemplateStateFirst(current_state, feedback) ==
    IF Truthy(current_state) THEN "with_feedback"
    ELSE IF Truthy(feedback) THEN "replan"
    ELSE "basic"

_select_template(current_state, feedback) ==
    IF Truthy(feedback) THEN "replan"
    ELSE IF Truthy(current_state) THEN "with_feedback"
    ELSE "basic"

HistoryEntry(plan, current_state, feedback) ==
    [plan |-> plan, current_state |-> current_state, feedback |-> feedback,
     task_count |-> Len(plan.tasks)]

\* Mutant: a full history keeps its oldest entries.
SaveHistoryKeepsOldest(history, entry) ==
    LET h == Append(history, entry)
    IN  IF Len(h) > 10 THEN SubSeq(h, 1, 10) ELSE h

_save_planning_history(history, entry) ==
    LET h == Append(history, entry)
    IN  IF Len(h) > 10 THEN SubSeq(h, Len(h) - 9, Len(h)) ELSE h

PlannerIdle ==
    /\ planning_history = <<>>
    /\ plan_call = [current_state |-> None, feedback |-> None, template |-> None,
                    response |-> Text("plain", NoJson, <<BlankLine>>)]
    /\ plan_result = Plan("none", "absent", <<>>, None, Null)
    /\ plan_count = 0

\* One call of plan(goal, current_state, feedback), the generator answering
\* with the text response.
plan(current_state, feedback, response) ==
    LET template == _select_template(current_state, feedback)
        result == _parse_plan(response)
    IN  /\ plan_call' = [current_state |-> current_state, feedback |-> feedback,
                         template |-> template, response |-> response]
        /\ plan_result' = result
        /\ planning_history' =
              IF result.outcome = "raised" THEN planning_history
              ELSE _save_planning_history(planning_history,
                       HistoryEntry(result, current_state, feedback))
        /\ plan_count' = IF result.outcome = "raised" THEN plan_count
                         ELSE plan_count + 1
        /\ UNCHANGED llm

(***************************************************************************)
(* Generator responses, as the actor reads them.                           *)
(*                                                                         *)
(* An action (the text of an action line) is known by the prefix before    *)
(* its first ':' (the tool a Chinese tool name maps to, or the prefix      *)
(* itself), by the tool keywords it contains, by what its tool input is as *)
(* an arithmetic expression, and by the failure words (shibai, cuowu) and  *)
(* the completion words (wancheng, chenggong, jieshu, completed, finished) *)
(* in it.  Chinese words are written in pinyin.                            *)
(***************************************************************************)
Action(name, mapped, prefix, kw, expr, fail, done) ==
    [name |-> name, mapped |-> mapped, prefix |-> prefix, kw |-> kw,
     expr |-> expr, fail |-> fail, done |-> done]

\* No action line in the response, or an empty one.
NoAction == Action("", None, None, {}, "invalid", FALSE, FALSE)

Actions ==
    { Action("sousuo: x", "search", None, {"search"}, "invalid", FALSE, FALSE),
      Action("jisuan: 1+1", "calculator", None, {"calculator"}, "valid", FALSE, FALSE),
      Action("jisuan: 1/0", "calculator", None, {"calculator"}, "error", FALSE, FALSE),
      Action("jisuan: abc", "calculator", None, {"calculator"}, "invalid", FALSE, FALSE),
      Action("calculator: 2*3", None, "calculator", {"calculator"}, "valid", FALSE, FALSE),
      Action("statistics: x", None, "statistics", {}, "invalid", FALSE, FALSE),
      Action("file_ops: x", None, "file_ops", {}, "invalid", FALSE, FALSE),
      Action("analysis of the data", None, None, {"data_analysis"}, "invalid", FALSE, FALSE),
      Action("write the report", None, None, {}, "invalid", FALSE, FALSE),
      Action("retry: last step shibai", None, "retry", {}, "invalid", TRUE, FALSE),
      Action("zongjie: task chenggong", "summarizer", None, {}, "invalid", FALSE, TRUE),
      Action("task shibai, wancheng", None, None, {}, "invalid", TRUE, TRUE) }

\* A response of the generator: text or not (None); whether the stripped text
\* starts with the completion marker, written with an ASCII colon ("ascii") or
\* with a full-width colon ("full"); the text after that leading marker,
\* stripped ("" or some text); whether a marker with an ASCII colon follows a
\* leading marker with a full-width colon, and what comes after it; the bodies
\* of the action lines, in order.
Reply(isText, marker, payload, inner, actionLines) ==
    [isText |-> isText, marker |-> marker, payload |-> payload, inner |-> inner,
     actionLines |-> actionLines]

NotText == Reply(FALSE, "none", None, "none", <<>>)

CompletionReplies ==
    {Reply(TRUE, "ascii", p, "none", <<>>) : p \in {"", "text"}}
    \cup {Reply(TRUE, "full", p, "none", <<>>) : p \in {"", "text"}}
    \cup {Reply(TRUE, "full", "text", i, <<>>) : i \in {"empty", "text"}}

\* The text LLMClient.generate returns when every attempt failed: no marker
\* and no action line.
LLMErrorReply == Reply(TRUE, "none", None, "none", <<>>)

ActionReplies ==
    {Reply(TRUE, "none", None, "none", <<a>>) : a \in Actions \cup {NoAction}}
    \cup {Reply(TRUE, "none", None, "none", <<a, b>>) :
            a \in {Action("jisuan: 1/0", "calculator", None, {"calculator"}, "error", FALSE, FALSE)},
            b \in {NoAction, Action("sousuo: x", "search", None, {"search"}, "invalid", FALSE, FALSE)}}

Replies == {NotText, LLMErrorReply} \cup CompletionReplies \cup ActionReplies

\* What execute returns: which return statement produced it and whether the
\* string is empty.
Result(kind, empty) == [kind |-> kind, empty |-> empty]

NoResult == Result("none", FALSE)

\* An action result as _should_continue reads it.
Observation(text, fail, done) == [text |-> text, fail |-> fail, done |-> done]

NoObservation == Observation("none", FALSE, FALSE)

\* The tools of the agent templates, and the tools that are implemented.
available_tools ==
    [analyst |-> {"calculator", "data_analysis", "statistics", "visualization",
                  "comparison"},
     executor |-> {"file_ops", "api_calls", "text_processing", "format_converter",
                   "batch_processor"},
     researcher |-> {"search", "web_scraping", "summarizer", "knowledge_base",
                     "citation_manager"}]

tool_implementations ==
    {"search", "calculator", "data_analysis", "file_ops", "summarizer", "general"}

(***************************************************************************)
(* The actor: parse_response, _is_completion_response,                     *)
(* _extract_completion_result, _parse_tool_call, _execute_action,          *)
(* _should_continue                                                        *)
(***************************************************************************)
\* parse_response: the last action line wins.
parse_response(response) ==
    IF response.actionLines = <<>> THEN NoAction
    ELSE response.actionLines[Len(response.actionLines)]

_is_completion_response(response) == response.marker \in {"ascii", "full"}

\* The text after the first marker with an ASCII colon if there is one, else
\* after the first marker with a full-width colon.
_extract_completion_result(response) ==
    IF response.marker = "ascii" THEN Result("completion", response.payload = "")
    ELSE IF response.inner # "none" THEN Result("completion_inner", response.inner = "empty")
    ELSE Result("completion", response.payload = "")

_parse_tool_call(action, tools) ==
    IF action.mapped # None THEN action.mapped
    ELSE IF action.prefix # None /\ action.prefix \in tools THEN action.prefix
    ELSE IF "search" \in action.kw THEN "search"
    ELSE IF "calculator" \in action.kw THEN "calculator"
    ELSE IF "data_analysis" \in action.kw THEN "data_analysis"
    ELSE "general"

_tool_calculator(action) ==
    CASE action.expr = "valid" -> Observation("calculated", FALSE, FALSE)
      [] action.expr = "error" -> Observation("calculation_error", TRUE, FALSE)
      [] OTHER -> Observation("invalid_expression", action.fail, action.done)

_execute_action(action, tools) ==
    IF action = NoAction THEN Observation("invalid_action", FALSE, FALSE)
    ELSE LET tool_name == _parse_tool_call(action, tools)
         IN  IF tool_name \notin tool_implementations
             THEN Observation("thought", action.fail, action.done)
             ELSE IF tool_name = "calculator" THEN _tool_calculator(action)
             ELSE Observation(tool_name, action.fail, action.done)

\* Mutant: the completion words looked for before the failure words.
ShouldContinueDoneFirst(action_result, i, max_iterations) ==
    IF action_result.done THEN FALSE
    ELSE IF action_result.fail THEN i < max_iterations - 2
    ELSE TRUE

_should_continue(action_result, i, max_iterations) ==
    IF action_result.fail THEN i < max_iterations - 2
    ELSE ~action_result.done

(***************************************************************************)
(* SimpleActor.execute and its ReAct loop.  One call of execute is a       *)
(* sequence of steps, one for each response of the generator.              *)
(***************************************************************************)
ActorIdle ==
    /\ actor_status = "idle"
    /\ current_task = None
    /\ execution_history = <<>>
    /\ exec_pc = "idle"
    /\ exec_calls = 0
    /\ iteration = 0
    /\ steps = <<>>
    /\ reply = NotText
    /\ observation = NoObservation
    /\ exec_result = NoResult
    /\ generate_calls = 0

\* Mutant: a full history keeps its oldest entries.
LogKeepsOldest(history, result, success) ==
    LET h == Append(history, [result |-> result, success |-> success])
    IN  IF Len(h) > 20 THEN SubSeq(h, 1, 20) ELSE h

\* _log_execution_result: the last 20 entries are kept.
_log_execution_result(history, result, success) ==
    LET h == Append(history, [result |-> result, success |-> success])
    IN  IF Len(h) > 20 THEN SubSeq(h, Len(h) - 19, Len(h)) ELSE h

\* The head of execute, up to the first request to the generator.
ExecuteStart(task_description) ==
    /\ exec_pc = "idle"
    /\ exec_calls' = exec_calls + 1
    /\ actor_status' = "working"
    /\ current_task' = task_description
    /\ exec_pc' = "loop"
    /\ iteration' = 0
    /\ steps' = <<>>
    /\ observation' = NoObservation
    /\ exec_result' = NoResult
    /\ generate_calls' = 0
    /\ UNCHANGED <<execution_history, reply>>

\* _react_loop returned result: the try branch of execute and its finally.
ExecuteReturns(result) ==
    /\ actor_status' = "completed"
    /\ execution_history' = _log_execution_result(execution_history, result, TRUE)
    /\ exec_result' = result
    /\ current_task' = None
    /\ exec_pc' = "idle"

\* Mutant: an except branch that logs the call as a success.
ExecuteCatchesLogsSuccess ==
    LET error_msg == Result("error", FALSE)
    IN  /\ actor_status' = "error"
        /\ execution_history' = _log_execution_result(execution_history, error_msg, TRUE)
        /\ exec_result' = error_msg
        /\ current_task' = None
        /\ exec_pc' = "idle"

\* Mutant: an except branch that returns without the cleanup of finally.
ExecuteCatchesNoCleanup ==
    LET error_msg == Result("error", FALSE)
    IN  /\ actor_status' = "error"
        /\ execution_history' = _log_execution_result(execution_history, error_msg, FALSE)
        /\ exec_result' = error_msg
        /\ UNCHANGED current_task
        /\ exec_pc' = "idle"

\* _react_loop raised: the except branch of execute and its finally.
ExecuteCatches ==
    LET error_msg == Result("error", FALSE)
    IN  /\ actor_status' = "error"
        /\ execution_history' = _log_execution_result(execution_history, error_msg, FALSE)
        /\ exec_result' = error_msg
        /\ current_task' = None
        /\ exec_pc' = "idle"

\* Mutant: the summary tagged as completed whatever the flag.
SummaryTaggedCompleted(timeout) ==
    Result("summary", FALSE)

\* _generate_summary over a non-empty list of steps.
_generate_summary(timeout) ==
    Result(IF timeout THEN "timeout_summary" ELSE "summary", FALSE)

\* Mutant: a loop that makes one pass more.
InRangeOneMore(i, n) == i < n + 1

\* for iteration in range(max_iterations): whether i is a value of the loop.
InRange(i, n) == i < n

\* One pass of the loop of _react_loop on the response of the generator, and
\* what follows when the pass leaves the loop.
ReactIteration(response, tools) ==
    /\ exec_pc = "loop"
    /\ reply' = response
    /\ generate_calls' = generate_calls + 1
    /\ UNCHANGED exec_calls
    /\ IF ~response.isText
       THEN /\ ExecuteCatches
            /\ UNCHANGED <<iteration, steps, observation>>
       ELSE IF _is_completion_response(response)
       THEN /\ steps' = Append(steps, [iteration |-> iteration + 1, type |-> "completion"])
            /\ ExecuteReturns(_extract_completion_result(response))
            /\ UNCHANGED <<iteration, observation>>
       ELSE LET action == parse_response(response)
                action_result == _execute_action(action, tools)
            IN  /\ steps' = Append(steps, [iteration |-> iteration + 1, type |-> "action"])
                /\ observation' = action_result
                /\ IF _should_continue(action_result, iteration, MAX_ITERATIONS)
                   THEN IF InRange(iteration + 1, MAX_ITERATIONS)
                        THEN /\ iteration' = iteration + 1
                             /\ UNCHANGED <<actor_status, current_task,
                                            execution_history, exec_pc, exec_result>>
                        ELSE /\ ExecuteReturns(_generate_summary(TRUE))
                             /\ UNCHANGED iteration
                   ELSE /\ ExecuteReturns(_generate_summary(FALSE))
                        /\ UNCHANGED iteration

\* An analyst executing tasks for arbitrary callers.
Execute ==
    /\ exec_calls < MaxExecutions
    /\ \E task_description \in {"task", ""} : ExecuteStart(task_description)

React ==
    \E response \in Replies : ReactIteration(response, available_tools.analyst)

(***************************************************************************)
(* SimpleActorFactory.  A task description is known by the keywords of the *)
(* three roles it contains and by its hash.                                *)
(***************************************************************************)
analyst_keywords == {"analysis", "calculate"}
executor_keywords == {"execute"}
researcher_keywords == {"search"}

\* The hashes of descriptions: two that fall into one bucket, and a third.
Hashes == {1, -1001, 2}

Description(kw, hash) == [kw |-> kw, hash |-> hash]

Descriptions ==
    {Description(kw, hash) :
        kw \in SUBSET (analyst_keywords \cup executor_keywords \cup researcher_keywords),
        hash \in Hashes}

agent_templates == {"analyst", "executor", "researcher"}

\* The task types callers pass: none, roles, and a tool type of the planner.
TaskTypes == {None, "analyst", "researcher", "general"}

\* Mutant: the comparison of the executor's score made before the analyst's.
SelectExecutorFirst(task_description, task_type) ==
    LET analyst_score == Cardinality(task_description.kw \cap analyst_keywords)
        executor_score == Cardinality(task_description.kw \cap executor_keywords)
        researcher_score == Cardinality(task_description.kw \cap researcher_keywords)
    IN  IF task_type # None /\ task_type \in agent_templates THEN task_type
        ELSE IF executor_score >= analyst_score /\ executor_score >= researcher_score
        THEN "executor"
        ELSE IF analyst_score >= researcher_score THEN "analyst"
        ELSE "researcher"

_select_agent_type(task_description, task_type) ==
    LET analyst_score == Cardinality(task_description.kw \cap analyst_keywords)
        executor_score == Cardinality(task_description.kw \cap executor_keywords)
        researcher_score == Cardinality(task_description.kw \cap researcher_keywords)
    IN  IF task_type # None /\ task_type \in agent_templates THEN task_type
        ELSE IF analyst_score >= executor_score /\ analyst_score >= researcher_score
        THEN "analyst"
        ELSE IF executor_score >= researcher_score THEN "executor"
        ELSE "researcher"

Abs(n) == IF n < 0 THEN 0 - n ELSE n

\* generate_agent_id: the role, an underscore and the bucket of the hash.
generate_agent_id(agent_type, task_hash) ==
    agent_type \o "_" \o ToString(Abs(task_hash) % 1000)

\* The role of an identifier is its head.
AgentType(id) ==
    IF \E h \in Hashes : id = generate_agent_id("analyst", h) THEN "analyst"
    ELSE IF \E h \in Hashes : id = generate_agent_id("executor", h) THEN "executor"
    ELSE "researcher"

FactoryCall(op, task_description, task_type, agent_id) ==
    [op |-> op, task_description |-> task_description, task_type |-> task_type,
     agent_id |-> agent_id]

NoFactoryCall == FactoryCall("none", Description({}, 0), None, None)

\* SimpleActor.__init__, as far as the factory's callers see the actor.
NewActor(agent_id, agent_type) ==
    [agent_id |-> agent_id, agent_type |-> agent_type, status |-> "idle",
     execution_history |-> <<>>]

\* Mutant: a factory that constructs an actor whatever its cache holds.
CreateActorAnew(task_description, task_type) ==
    LET agent_type == _select_agent_type(task_description, task_type)
        agent_id == generate_agent_id(agent_type, task_description.hash)
        actor == NewActor(agent_id, agent_type)
    IN  /\ actor_id' = agent_id
        /\ created_agents' = Put(created_agents, agent_id, actor)
        /\ factory_call' = FactoryCall("create_actor", task_description, task_type,
                                       agent_id)
        /\ actor_status' = actor.status
        /\ execution_history' = actor.execution_history
        /\ current_task' = None
        /\ UNCHANGED <<exec_pc, exec_calls, iteration, steps, reply, observation,
                       exec_result, generate_calls>>

\* The actor the factory hands out becomes the actor of the model: a new one
\* (idle, no history) or the cached one of the same identifier.
create_actor(task_description, task_type) ==
    LET agent_type == _select_agent_type(task_description, task_type)
        agent_id == generate_agent_id(agent_type, task_description.hash)
        cached == agent_id \in DOMAIN created_agents
        actor == IF cached THEN created_agents[agent_id]
                 ELSE NewActor(agent_id, agent_type)
    IN  /\ actor_id' = agent_id
        /\ created_agents' = IF cached THEN created_agents
                             ELSE Put(created_agents, agent_id, actor)
        /\ factory_call' = FactoryCall("create_actor", task_description, task_type,
                                       agent_id)
        /\ actor_status' = actor.status
        /\ execution_history' = actor.execution_history
        /\ current_task' = None
        /\ UNCHANGED <<exec_pc, exec_calls, iteration, steps, reply, observation,
                       exec_result, generate_calls>>

\* remove_agent
remove_agent(agent_id) ==
    /\ created_agents' = [k \in DOMAIN created_agents \ {agent_id} |-> created_agents[k]]
    /\ factory_call' = FactoryCall("remove_agent", Description({}, 0), None, agent_id)
    /\ UNCHANGED actor_id
    /\ UNCHANGED actorVars

\* clear_agents
clear_agents ==
    /\ created_agents' = EmptyMap
    /\ factory_call' = FactoryCall("clear_agents", Description({}, 0), None, None)
    /\ UNCHANGED actor_id
    /\ UNCHANGED actorVars

\* One call of create_actor on a factory that was not called yet, for any
\* description and task type.
SelectAndCreate ==
    /\ factory_call.op = "none"
    /\ \E d \in Descriptions, task_type \in TaskTypes : create_actor(d, task_type)

\* The descriptions the callers of the factory specification come back
\* with: two of the same role and bucket, and one of another role and bucket.
CacheDescriptions ==
    {Description({"analysis"}, 1), Description({"analysis", "calculate"}, -1001),
     Description({"execute"}, 2)}

\* The callers of the factory specification: create_actor, remove_agent and
\* clear_agents on a cache that is not empty, all of them between the calls
\* of execute.
FactoryCreate ==
    /\ exec_pc = "idle"
    /\ \E d \in CacheDescriptions, task_type \in {None, "researcher"} :
          create_actor(d, task_type)

FactoryRemove ==
    /\ exec_pc = "idle"
    /\ created_agents # EmptyMap
    /\ \E agent_id \in DOMAIN created_agents \cup {"analyst_0"} : remove_agent(agent_id)

FactoryClear ==
    /\ exec_pc = "idle"
    /\ created_agents # EmptyMap
    /\ clear_agents

\* The caller runs the actor the factory has just handed out; its generator
\* answers with a completion, or with something that is no text.
FactoryExecute ==
    /\ factory_call.op = "create_actor"
    /\ exec_calls < MaxExecutions
    /\ ExecuteStart("task")
    /\ UNCHANGED <<actor_id, created_agents, factory_call>>

FactoryReact ==
    /\ \E response \in {Reply(TRUE, "ascii", "text", "none", <<>>), NotText} :
          ReactIteration(response, available_tools[AgentType(actor_id)])
    /\ created_agents' =
          IF exec_pc' = "idle"
          THEN [created_agents EXCEPT ![actor_id].status = actor_status',
                                      ![actor_id].execution_history =
                                          execution_history']
          ELSE created_agents
    /\ UNCHANGED <<actor_id, factory_call>>

\* The descriptions of the subtasks the orchestrator hands to the factory:
\* one for an analyst and one for an executor, in the same bucket.
OrchDescriptions ==
    {Description({"analysis"}, 1), Description({"execute"}, -1001)}

(***************************************************************************)
(* LLMClient.generate: the text of the first attempt that succeeds, or the *)
(* error text when every attempt failed; it raises nothing.                *)
(***************************************************************************)
\* The text generate returns when every attempt failed.
LLMErrorText == Text("plain", NoJson, <<LLMErrorLine>>)

\* The outcomes <<failed, text>> of generate, the service answering with one
\* of texts when an attempt succeeds.
generate(texts) ==
    {<<FALSE, t>> : t \in texts} \cup {<<TRUE, LLMErrorText>>}

\* What a call of generate returns: a string (the content of a response, or
\* the error prefix "LLM diaoyong shibai: " followed by str(e)), or None.
Returned(isText, prefixed, body) ==
    [isText |-> isText, prefixed |-> prefixed, body |-> body]

NothingReturned == Returned(FALSE, FALSE, "nothing")
ReturnedNone == Returned(FALSE, FALSE, None)

\* The content of a response of the service: a string, or None.
Contents == {"", "wancheng: 42", "LLM diaoyong shibai: x", None}

\* str(e) of the exceptions the service raises.
Failures == {"timeout", ""}

\* A client configured with MAX_RETRIES = n, no call made.
LLMClient(n) ==
    [MAX_RETRIES |-> n, pc |-> "idle", calls |-> 0, attempt |-> 0,
     attempts |-> <<>>, delays |-> <<>>, result |-> NothingReturned]

LLMIdle == llm = LLMClient(MAX_RETRIES)

\* The head of generate: for attempt in range(config.MAX_RETRIES).  A loop
\* with no pass falls off the end of the function, which returns None.
GenerateStart ==
    /\ llm.pc \in {"idle", "returned"}
    /\ llm' = [llm EXCEPT !.calls = @ + 1, !.attempt = 0, !.attempts = <<>>,
                          !.delays = <<>>,
                          !.pc = IF InRange(0, llm.MAX_RETRIES) THEN "attempt"
                                 ELSE "returned",
                          !.result = IF InRange(0, llm.MAX_RETRIES)
                                     THEN NothingReturned ELSE ReturnedNone]
    /\ UNCHANGED <<planning_history, plan_call, plan_result, plan_count>>

\* One pass of the loop: the request answered, generate returns the content
\* of the response; the request raising, generate returns the error text
\* when this was the last value of the loop, and otherwise sleeps
\* 2 ** attempt seconds and makes the next pass.
GenerateAttempt ==
    /\ llm.pc = "attempt"
    /\ \/ \E content \in Contents :
             llm' = [llm EXCEPT !.pc = "returned",
                                !.attempts = Append(@, "answered"),
                                !.result = IF content = None THEN ReturnedNone
                                           ELSE Returned(TRUE, FALSE, content)]
       \/ \E e \in Failures :
             IF llm.attempt = llm.MAX_RETRIES - 1
             THEN llm' = [llm EXCEPT !.pc = "returned",
                                     !.attempts = Append(@, "raised"),
                                     !.result = Returned(TRUE, TRUE, e)]
             ELSE llm' = [llm EXCEPT !.attempts = Append(@, "raised"),
                                     !.delays = Append(@, 2 ^ llm.attempt),
                                     !.attempt = @ + 1]
    /\ UNCHANGED <<planning_history, plan_call, plan_result, plan_count>>

(***************************************************************************)
(* AimeSystem.execute_task, one step for each call it makes to the         *)
(* planner, the tracker, the factory and the actor.                        *)
(***************************************************************************)
\* The plans the generator writes for the orchestrator: a task list of full
\* entries, of entries with a numeric description, of plain strings; a JSON
\* list; prose.
PlanItems ==
    {Item("object", ItemKeys, GivenDesc),
     Item("object", {"description", "tool_type"}, NumberDesc),
     Item("string", ItemKeys, NoDesc)}

\* Task lists of no, one and two entries.
PlanLists ==
    {<<>>} \cup {<<a>> : a \in PlanItems} \cup {<<a, b>> : a, b \in PlanItems}

PlanTexts ==
    {Text("json", Json("object", {"tasks"}, TasksValue("array", items)), <<LongLine>>) :
        items \in PlanLists}
    \cup {Text("json", Json("array", {}, NoTasks), <<LongLine>>),
          Text("plain", NoJson, <<StepLine, LongLine>>)}

OrchResult(kind, succeeded, total) ==
    [kind |-> kind, succeeded |-> succeeded, total |-> total]

NoOrchResult == OrchResult("none", 0, 0)

OrchIdle ==
    /\ orch_pc = "idle"
    /\ generate_failed = FALSE
    /\ main_task_id = Null
    /\ subtask_id = Null
    /\ subtask_index = 0
    /\ actor_id = None
    /\ results = <<>>
    /\ created_agents = EmptyMap
    /\ team = <<>>
    /\ factory_call = NoFactoryCall
    /\ orch_result = NoOrchResult

\* The except branch at the end of execute_task.
OrchCatches ==
    /\ orch_result' = OrchResult("error", 0, 0)
    /\ orch_pc' = "done"

\* planner.plan(goal) and the test of its task list.
OrchPlan ==
    /\ orch_pc = "idle"
    /\ \E out \in generate(PlanTexts) :
          /\ generate_failed' = out[1]
          /\ plan(None, None, out[2])
          /\ LET p == _parse_plan(out[2])
             IN  IF p.outcome = "raised" THEN OrchCatches
                 ELSE IF p.tasks = <<>>
                 THEN /\ orch_result' = OrchResult("planning_failed", 0, 0)
                      /\ orch_pc' = "done"
                 ELSE /\ orch_pc' = "create_main"
                      /\ UNCHANGED orch_result
    /\ UNCHANGED <<team, factory_call, main_task_id, subtask_id, subtask_index, actor_id, results,
                   created_agents>>
    /\ UNCHANGED <<trackerVars, actorVars>>

\* create_task for the goal, its subtasks the descriptions of the plan's tasks.
OrchCreateMain ==
    /\ orch_pc = "create_main"
    /\ IF \E i \in 1..Len(plan_result.tasks) : plan_result.tasks[i].kind # "object"
       THEN /\ OrchCatches
            /\ UNCHANGED <<main_task_id, subtask_index>>
            /\ UNCHANGED trackerVars
       ELSE /\ create_task
            /\ main_task_id' = generate_task_id(now)
            /\ subtask_index' = 1
            /\ orch_pc' = "create_subtask"
            /\ UNCHANGED orch_result
    /\ UNCHANGED <<team, factory_call, generate_failed, subtask_id, actor_id, results, created_agents>>
    /\ UNCHANGED <<plannerVars, actorVars>>

\* The head of the loop over the plan's tasks: the log line that slices the
\* description, and create_task for the subtask.
OrchCreateSubtask ==
    /\ orch_pc = "create_subtask"
    /\ IF ~plan_result.tasks[subtask_index].description.isStr
       THEN /\ OrchCatches
            /\ UNCHANGED subtask_id
            /\ UNCHANGED trackerVars
       ELSE /\ create_task
            /\ subtask_id' = generate_task_id(now)
            /\ orch_pc' = "assign"
            /\ UNCHANGED orch_result
    /\ UNCHANGED <<team, factory_call, generate_failed, main_task_id, subtask_index, actor_id, results,
                   created_agents>>
    /\ UNCHANGED <<plannerVars, actorVars>>

\* factory.create_actor and progress_manager.assign_task.
OrchAssign ==
    /\ orch_pc = "assign"
    /\ \E d \in OrchDescriptions :
          /\ create_actor(d, "general")
          /\ assign_task(subtask_id,
                         generate_agent_id(_select_agent_type(d, "general"), d.hash))
    /\ orch_pc' = "execute"
    /\ UNCHANGED <<team, generate_failed, main_task_id, subtask_id, subtask_index, results,
                   orch_result>>
    /\ UNCHANGED plannerVars

\* agent.execute is entered.
OrchExecute ==
    /\ orch_pc = "execute"
    /\ exec_pc = "idle"
    /\ ExecuteStart("task")
    /\ orch_pc' = "react"
    /\ UNCHANGED <<team, factory_call, generate_failed, main_task_id, subtask_id, subtask_index, actor_id,
                   results, created_agents, orch_result>>
    /\ UNCHANGED <<trackerVars, plannerVars>>

\* agent.execute runs its loop.
OrchReact ==
    /\ orch_pc = "react"
    /\ \E response \in Replies :
          ReactIteration(response, available_tools[AgentType(actor_id)])
    /\ orch_pc' = IF exec_pc' = "idle" THEN "record" ELSE "react"
    /\ created_agents' =
          IF exec_pc' = "idle"
          THEN [created_agents EXCEPT ![actor_id].status = actor_status',
                                      ![actor_id].execution_history =
                                          execution_history']
          ELSE created_agents
    /\ UNCHANGED <<team, factory_call, generate_failed, main_task_id, subtask_id, subtask_index, actor_id,
                   results, orch_result>>
    /\ UNCHANGED <<trackerVars, plannerVars>>

\* agent.execute is left: the entry of results and the update of the subtask,
\* then the next pass of the loop or the end of it.
OrchRecord ==
    /\ orch_pc = "record"
    /\ IF exec_result.kind # "raised"
       THEN /\ results' = Append(results, TRUE)
            /\ UpdateProgress("complete_task", subtask_id, 100, "completed",
                              "result", None)
       ELSE /\ results' = Append(results, FALSE)
            /\ UpdateProgress("fail_task", subtask_id, Null, "failed", None, "error")
    /\ IF subtask_index < Len(plan_result.tasks)
       THEN /\ subtask_index' = subtask_index + 1
            /\ orch_pc' = "create_subtask"
       ELSE /\ orch_pc' = "finish"
            /\ UNCHANGED subtask_index
    /\ UNCHANGED <<team, factory_call, generate_failed, main_task_id, subtask_id, actor_id, created_agents,
                   orch_result>>
    /\ UNCHANGED <<plannerVars, actorVars>>

\* _integrate_results and the update of the main task.
OrchFinish ==
    LET success_count == Cardinality({i \in 1..Len(results) : results[i]})
    IN  /\ orch_pc = "finish"
        /\ IF success_count = Len(results)
           THEN UpdateProgress("complete_task", main_task_id, 100, "completed",
                               "result", None)
           ELSE IF success_count > 0
           THEN UpdateProgress("update_progress", main_task_id,
                               (100 * success_count) \div Len(results), "completed",
                               "result", None)
           ELSE UpdateProgress("fail_task", main_task_id, Null, "failed", None, "error")
        /\ orch_result' = OrchResult("report", success_count, Len(results))
        /\ orch_pc' = "done"
        /\ UNCHANGED <<team, factory_call, generate_failed, main_task_id, subtask_id, subtask_index,
                       actor_id, results, created_agents>>
        /\ UNCHANGED <<plannerVars, actorVars>>

(***************************************************************************)
(* AimeSystem.execute_multi_agent_task, one step for each call it makes to *)
(* the planner, the factory and the actors.  It has no try around the plan *)
(* and the team, and it calls the tracker nowhere.                         *)
(***************************************************************************)
\* An exception that leaves execute_multi_agent_task.
TeamRaises ==
    /\ orch_result' = OrchResult("raised", 0, 0)
    /\ orch_pc' = "done"

\* team[agent_id] = member: a dict keeps one member for each identifier, at
\* the position of the first assignment.
TeamPut(t, id, task) ==
    IF \E i \in 1..Len(t) : t[i].agent = id
    THEN [i \in 1..Len(t) |->
             IF t[i].agent = id THEN [agent |-> id, task |-> task] ELSE t[i]]
    ELSE Append(t, [agent |-> id, task |-> task])

\* planner.plan(goal, current_state) and the test of its task list.
TeamPlan ==
    /\ orch_pc = "idle"
    /\ \E out \in generate(PlanTexts) :
          /\ generate_failed' = out[1]
          /\ plan("state", None, out[2])
          /\ LET p == _parse_plan(out[2])
             IN  IF p.outcome = "raised" THEN TeamRaises /\ UNCHANGED subtask_index
                 ELSE IF p.tasks = <<>>
                 THEN /\ orch_result' = OrchResult("planning_failed", 0, 0)
                      /\ orch_pc' = "done"
                      /\ UNCHANGED subtask_index
                 ELSE /\ orch_pc' = "team_create"
                      /\ subtask_index' = 1
                      /\ UNCHANGED orch_result
    /\ UNCHANGED <<team, factory_call, main_task_id, subtask_id, actor_id, results,
                   created_agents>>
    /\ UNCHANGED <<trackerVars, actorVars>>

\* One pass of the loop that builds the team: task["description"],
\* factory.create_actor (which slices the description) and the entry of team.
TeamCreateActor ==
    LET task == plan_result.tasks[subtask_index]
        last == subtask_index = Len(plan_result.tasks)
    IN  /\ orch_pc = "team_create"
        /\ IF task.kind # "object" \/ ~task.description.isStr
           THEN /\ TeamRaises
                /\ UNCHANGED <<team, factory_call, subtask_index, actor_id,
                               created_agents>>
                /\ UNCHANGED actorVars
           ELSE /\ \E d \in OrchDescriptions :
                      /\ create_actor(d, "general")
                      /\ team' = TeamPut(team,
                                         generate_agent_id(
                                             _select_agent_type(d, "general"), d.hash),
                                         subtask_index)
                /\ subtask_index' = IF last THEN 1 ELSE subtask_index + 1
                /\ orch_pc' = IF last THEN "team_member" ELSE "team_create"
                /\ UNCHANGED orch_result
        /\ UNCHANGED <<generate_failed, main_task_id, subtask_id, results>>
        /\ UNCHANGED <<trackerVars, plannerVars>>

\* The head of the loop over team.items(): the member's actor becomes the
\* actor of the model.
TeamMember ==
    LET id == team[subtask_index].agent
    IN  /\ orch_pc = "team_member"
        /\ actor_id' = id
        /\ actor_status' = created_agents[id].status
        /\ execution_history' = created_agents[id].execution_history
        /\ orch_pc' = "team_execute"
        /\ UNCHANGED <<current_task, exec_pc, exec_calls, iteration, steps, reply,
                       observation, exec_result, generate_calls>>
        /\ UNCHANGED <<team, factory_call, generate_failed, main_task_id, subtask_id, subtask_index,
                       results, created_agents, orch_result>>
        /\ UNCHANGED <<trackerVars, plannerVars>>

\* agent.execute is entered.
TeamExecute ==
    /\ orch_pc = "team_execute"
    /\ ExecuteStart("task")
    /\ orch_pc' = "team_react"
    /\ UNCHANGED <<team, factory_call, generate_failed, main_task_id, subtask_id, subtask_index,
                   actor_id, results, created_agents, orch_result>>
    /\ UNCHANGED <<trackerVars, plannerVars>>

\* agent.execute runs its loop.
TeamReact ==
    /\ orch_pc = "team_react"
    /\ \E response \in Replies :
          ReactIteration(response, available_tools[AgentType(actor_id)])
    /\ orch_pc' = IF exec_pc' = "idle" THEN "team_record" ELSE "team_react"
    /\ created_agents' =
          IF exec_pc' = "idle"
          THEN [created_agents EXCEPT ![actor_id].status = actor_status',
                                      ![actor_id].execution_history =
                                          execution_history']
          ELSE created_agents
    /\ UNCHANGED <<team, factory_call, generate_failed, main_task_id, subtask_id, subtask_index,
                   actor_id, results, orch_result>>
    /\ UNCHANGED <<trackerVars, plannerVars>>

\* agent.execute is left: the entry of results, then the next member, or
\* _integrate_collaboration_results after the last one.
TeamRecord ==
    LET rs == Append(results, exec_result.kind # "raised")
        success_count == Cardinality({i \in 1..Len(rs) : rs[i]})
    IN  /\ orch_pc = "team_record"
        /\ results' = rs
        /\ IF subtask_index < Len(team)
           THEN /\ subtask_index' = subtask_index + 1
                /\ orch_pc' = "team_member"
                /\ UNCHANGED orch_result
           ELSE /\ orch_result' = OrchResult("team_report", success_count, Len(rs))
                /\ orch_pc' = "done"
                /\ UNCHANGED subtask_index
        /\ UNCHANGED <<team, factory_call, generate_failed, main_task_id, subtask_id, actor_id,
                       created_agents>>
        /\ UNCHANGED <<trackerVars, plannerVars, actorVars>>

(***************************************************************************)
(* Specifications: each component driven by arbitrary callers, the other   *)
(* components left alone.                                                  *)
(***************************************************************************)
TrackerNext ==
    \/ CanCall /\ create_task /\ UNCHANGED <<plannerVars, actorVars, orchVars>>
    \/ CanCall /\ assign /\ UNCHANGED <<plannerVars, actorVars, orchVars>>
    \/ CanCall /\ update_progress /\ UNCHANGED <<plannerVars, actorVars, orchVars>>
    \/ CanCall /\ complete_task /\ UNCHANGED <<plannerVars, actorVars, orchVars>>
    \/ CanCall /\ fail_task /\ UNCHANGED <<plannerVars, actorVars, orchVars>>
    \/ CanCall /\ cancel_task /\ UNCHANGED <<plannerVars, actorVars, orchVars>>
    \/ CanCall /\ clear_completed_tasks /\ UNCHANGED <<plannerVars, actorVars, orchVars>>

\* A system in which nothing was called yet.
SystemInit == TrackerInit /\ PlannerIdle /\ LLMIdle /\ ActorIdle /\ OrchIdle

SpecTracker == SystemInit /\ [][TrackerNext]_vars

\* Callers that never create two tasks within one millisecond, so that
\* the identifiers are distinct (a millisecond has TicksPerMs = 2 ticks: the
\* identifier of a second create_task in it is that of the task created
\* one tick before), on a store that accepts every write.  They create
\* tasks, assign them, and update their status.
DistinctInit == SystemInit /\ epoch = 0 /\ storeFailures = MaxStoreFailures

DistinctNext ==
    \/ /\ now < MaxCalls
       /\ generate_task_id(now) \notin DOMAIN tasks
       /\ create_task
       /\ UNCHANGED <<plannerVars, actorVars, orchVars>>
    \/ /\ now < MaxCalls
       /\ \E task_id \in DOMAIN tasks, agent_id \in Agents :
             assign_task(task_id, agent_id)
       /\ UNCHANGED <<plannerVars, actorVars, orchVars>>
    \/ /\ now < MaxCalls
       /\ \E task_id \in DOMAIN tasks, status \in Statuses :
             UpdateProgress("update_progress", task_id, Null, status, None, None)
       /\ UNCHANGED <<plannerVars, actorVars, orchVars>>

SpecDistinct == DistinctInit /\ [][DistinctNext]_vars

\* Two threads that share one tracker: a task is created, and each thread
\* calls assign_task once, for any task and any agent, the scheduler
\* switching between them after any statement.
ThreadsInit == SystemInit /\ epoch = 0

ThreadsNext ==
    \/ /\ tasks = EmptyMap
       /\ create_task
       /\ UNCHANGED <<plannerVars, actorVars, orchVars>>
    \/ /\ \E c \in Callers, task_id \in TaskArgs, agent_id \in Agents :
             AssignCall(c, task_id, agent_id)
       /\ UNCHANGED <<plannerVars, actorVars, orchVars>>
    \/ (\E c \in Callers : AssignCheck(c))
           /\ UNCHANGED <<plannerVars, actorVars, orchVars>>
    \/ (\E c \in Callers : AssignWriteTask(c))
           /\ UNCHANGED <<plannerVars, actorVars, orchVars>>
    \/ (\E c \in Callers : AssignWriteAgent(c))
           /\ UNCHANGED <<plannerVars, actorVars, orchVars>>
    \/ (\E c \in Callers : AssignReturn(c))
           /\ UNCHANGED <<plannerVars, actorVars, orchVars>>

SpecThreads == ThreadsInit /\ [][ThreadsNext]_vars

\* The same callers, and a process that constructs the tracker anew on the
\* state file at any moment.
StoreNext ==
    \/ TrackerNext
    \/ CanCall /\ __init__ /\ UNCHANGED <<plannerVars, actorVars, orchVars>>

SpecStore == SystemInit /\ [][StoreNext]_vars

\* The planner of this specification serves one call.
PlanCall ==
    /\ plan_result.outcome = "none"
    /\ \E current_state \in {None, "", "state"}, feedback \in {None, "", "feedback"},
          response \in Texts :
            plan(current_state, feedback, response)
    /\ UNCHANGED <<trackerVars, actorVars, orchVars>>

\* The same, the tracker constructed at the start of a millisecond.
SystemIdle ==
    /\ TrackerInit
    /\ epoch = 0
    /\ storeFailures = 0
    /\ PlannerIdle
    /\ LLMIdle
    /\ ActorIdle
    /\ OrchIdle

SpecPlanner == SystemIdle /\ [][PlanCall]_vars

\* Responses of a planner that is called again and again: a line that
\* becomes a task, and a JSON number, on which plan raises.
HistoryTexts ==
    {Text("plain", NoJson, <<StepLine>>),
     Text("json", Json("scalar", {}, NoTasks), <<ShortLine>>)}

\* A caller that plans up to MaxPlans times with one planner.
HistoryPlan ==
    /\ plan_count < MaxPlans
    /\ \E response \in HistoryTexts : plan(None, None, response)
    /\ UNCHANGED <<trackerVars, actorVars, orchVars>>

HistoryReplan ==
    /\ plan_count < MaxPlans
    /\ plan(None, "feedback", Text("plain", NoJson, <<StepLine>>))
    /\ UNCHANGED <<trackerVars, actorVars, orchVars>>

HistoryNext == HistoryPlan \/ HistoryReplan

SpecHistory == SystemIdle /\ [][HistoryNext]_vars

\* An analyst that executes up to MaxLogged tasks.
LogExecute ==
    /\ exec_calls < MaxLogged
    /\ ExecuteStart("task")
    /\ UNCHANGED <<trackerVars, plannerVars, orchVars>>

\* The generator is down during the first sixteen of these calls, and then
\* answers with a completion, an empty completion, or not at all.
LogReact ==
    /\ \E response \in (IF exec_calls > 16
                         THEN {Reply(TRUE, "ascii", "text", "none", <<>>),
                               Reply(TRUE, "ascii", "", "none", <<>>), NotText}
                         ELSE {NotText}) :
          ReactIteration(response, available_tools.analyst)
    /\ UNCHANGED <<trackerVars, plannerVars, orchVars>>

LogNext == LogExecute \/ LogReact

SpecLog == SystemIdle /\ [][LogNext]_vars

\* Clients of every configured number of attempts from 0 to MaxRetries,
\* each serving up to MaxGenerations calls of generate.
GenerateInit ==
    /\ TrackerInit
    /\ epoch = 0
    /\ storeFailures = 0
    /\ PlannerIdle
    /\ llm \in {LLMClient(n) : n \in 0..MaxRetries}
    /\ ActorIdle
    /\ OrchIdle

GenerateNext ==
    \/ /\ llm.calls < MaxGenerations
       /\ GenerateStart
       /\ UNCHANGED <<trackerVars, actorVars, orchVars>>
    \/ GenerateAttempt /\ UNCHANGED <<trackerVars, actorVars, orchVars>>

SpecGenerate == GenerateInit /\ [][GenerateNext]_vars

ActorNext ==
    \/ Execute /\ UNCHANGED <<trackerVars, plannerVars, orchVars>>
    \/ React /\ UNCHANGED <<trackerVars, plannerVars, orchVars>>

SpecActor == SystemIdle /\ [][ActorNext]_vars

\* The generator answers every request (generate returns after at most
\* MAX_RETRIES attempts) and the tools return, so a call of execute that is in
\* its loop takes its next step.
LiveActor ==
    SpecActor /\ WF_vars(React /\ UNCHANGED <<trackerVars, plannerVars, orchVars>>)

\* execute_task called once on a fresh system.
OrchNext ==
    \/ OrchPlan
    \/ OrchCreateMain
    \/ OrchCreateSubtask
    \/ OrchAssign
    \/ OrchExecute
    \/ OrchReact
    \/ OrchRecord
    \/ OrchFinish

\* The store of this specification accepts every write.
OrchInit == SystemInit /\ storeFailures = MaxStoreFailures

SpecOrch == OrchInit /\ [][OrchNext]_vars

\* The factory driven by arbitrary callers.
FactoryFrame ==
    UNCHANGED <<orch_pc, team, generate_failed, main_task_id, subtask_id, subtask_index,
                results, orch_result, trackerVars, plannerVars>>

FactoryNext ==
    \/ FactoryCreate /\ FactoryFrame
    \/ FactoryRemove /\ FactoryFrame
    \/ FactoryClear /\ FactoryFrame
    \/ FactoryExecute /\ FactoryFrame
    \/ FactoryReact /\ FactoryFrame

SpecFactory == SystemIdle /\ [][FactoryNext]_vars

\* _select_agent_type applied once to every description and task type.
SelectNext == SelectAndCreate /\ FactoryFrame

SpecSelect == SystemIdle /\ [][SelectNext]_vars

\* execute_multi_agent_task called once on a fresh system.
TeamNext ==
    \/ TeamPlan
    \/ TeamCreateActor
    \/ TeamMember
    \/ TeamExecute
    \/ TeamReact
    \/ TeamRecord

SpecTeam == OrchInit /\ [][TeamNext]_vars

(***************************************************************************)
(* Properties of the planner                                               *)
(***************************************************************************)
\* C7: whatever text the generator returns (empty, malformed, not JSON, JSON
\* without a tasks field or with an empty tasks list), the plan that plan
\* returns has a non-empty task sequence.
C7_PlanHasTasks ==
    plan_result.outcome = "returned" => Len(plan_result.tasks) >= 1

\* C8: whatever text the generator returns (also JSON that is no object, or
\* an object whose tasks entries are no objects), plan returns a plan and
\* raises nothing.
C8_PlanNeverRaises ==
    plan_result.outcome # "raised"

\* A line that is not empty, does not start with '#' and has more than 10
\* characters.
TaskLine(line) == line.name # "blank" /\ ~line.comment /\ line.len >= 11

\* C26: the plan of a text that is not JSON has one task for each line that
\* is not empty, does not start with '#' and is longer than 10 characters, in
\* the order of the lines, with the ids task_1..task_n; when no line is such
\* a line it has exactly one task, its description the text cut to 200
\* characters; the plan is a function of the text.
C26_FallbackPlan ==
    (plan_result.outcome = "returned" /\ plan_call.response.form = "plain") =>
        LET response == plan_call.response
            lines == SelectSeq(response.lines, TaskLine)
            planned == plan_result.tasks
        IN  /\ Len(planned) >= 1
            /\ IF lines # <<>>
               THEN /\ Len(planned) = Len(lines)
                    /\ \A i \in 1..Len(lines) :
                          /\ planned[i].id = "task_" \o ToString(i)
                          /\ planned[i].description.of = lines[i].name
                          /\ planned[i].description.len = Min(lines[i].len, 200)
               ELSE /\ Len(planned) = 1
                    /\ planned[1].id = "task_1"
                    /\ planned[1].description.of = "response"
                    /\ planned[1].description.len = Min(TextLen(response), 200)
            /\ \A text \in Texts :
                  text = response => _fallback_parse(text) = plan_result

\* The plan of a text of two lines that both become tasks, the second cut
\* to 200 characters.
C26_Witness ==
    /\ plan_result.outcome = "returned"
    /\ plan_call.response = Text("plain", NoJson, <<StepLine, LongLine>>)
    /\ Len(plan_result.tasks) = 2
    /\ plan_result.tasks[2].id = "task_2"
    /\ plan_result.tasks[2].description.len = 200

\* The entry a call of plan that returned leaves in the history.
EntryOfCall(call, result) == HistoryEntry(result, call.current_state, call.feedback)

\* C27: the planning history never holds more than 10 entries; a call of
\* plan that returns appends the entry of that call, and when that makes 11
\* the oldest one goes, so that the history is the 10 latest entries in the
\* order of the calls; a call that raises leaves the history as it is.
C27_HistoryBound ==
    /\ [](Len(planning_history) <= 10)
    /\ [][LET h == Append(planning_history, EntryOfCall(plan_call', plan_result'))
          IN  IF plan_result'.outcome = "returned"
              THEN /\ planning_history' = (IF Len(h) <= 10 THEN h ELSE Tail(h))
                   /\ planning_history'[Len(planning_history')] =
                          EntryOfCall(plan_call', plan_result')
              ELSE planning_history' = planning_history]_vars

\* The eleventh call that returned: ten entries, the first call's entry
\* gone, the last call's entry (a replanning) at the end.
C27_Witness ==
    /\ plan_count = 11
    /\ Len(planning_history) = 10
    /\ \A i \in 1..9 : planning_history[i].plan.tasks[1].description.of = "step"
    /\ planning_history[10].feedback = "feedback"
    /\ planning_history[9].feedback = None

\* C28: every call of execute appends one entry to the execution history
\* when it ends, with success true when the loop returned and false when an
\* exception was caught; the history never holds more than 20 entries, the
\* oldest one going when a call makes 21, so that it is the 20 latest
\* entries in the order of the calls.
C28_ExecutionHistory ==
    /\ [](Len(execution_history) <= 20)
    /\ [][IF exec_pc = "loop" /\ exec_pc' = "idle"
          THEN LET entry == [result |-> exec_result', success |-> reply'.isText]
                   h == Append(execution_history, entry)
               IN  /\ execution_history' = (IF Len(h) <= 20 THEN h ELSE Tail(h))
                   /\ entry.success = (exec_result'.kind # "error")
          ELSE execution_history' = execution_history]_vars

\* After the 22nd call: 20 entries, the entries of the first two calls
\* gone, the latest call a success after a failure.
C28_Witness ==
    /\ exec_calls = 22
    /\ exec_pc = "idle"
    /\ Len(execution_history) = 20
    /\ execution_history[20].success
    /\ ~execution_history[19].success
    /\ execution_history[15].success
    /\ ~execution_history[14].success

\* The attempts of a call of generate: at most MAX_RETRIES, none after one
\* that was answered, a sleep of 2 ** i seconds after the failed attempt i
\* that is not the last, the content of the answer returned, and the error
\* text returned after MAX_RETRIES failed attempts.
RetryLoop ==
    LET n == Len(llm.attempts)
    IN  /\ n <= llm.MAX_RETRIES
        /\ \A i \in 1..(n - 1) : llm.attempts[i] = "raised"
        /\ Len(llm.delays) = (IF llm.pc = "returned" /\ n > 0 THEN n - 1 ELSE n)
        /\ \A i \in 1..Len(llm.delays) : llm.delays[i] = 2 ^ (i - 1)
        /\ (llm.pc = "returned" /\ n > 0 /\ llm.attempts[n] = "answered") =>
               ~llm.result.prefixed
        /\ (llm.pc = "returned" /\ n > 0 /\ llm.attempts[n] = "raised") =>
               /\ n = llm.MAX_RETRIES
               /\ llm.result.isText
               /\ llm.result.prefixed

\* C29: generate makes at most MAX_RETRIES attempts, with an exponentially
\* growing delay between them, returns the text of the first attempt that
\* succeeds and the error-prefixed text after MAX_RETRIES failed attempts,
\* and for every configuration what it returns is a text.
C29_GenerateReturnsText ==
    /\ RetryLoop
    /\ llm.pc = "returned" => llm.result.isText

\* C30: the progress of every task lies in [0, 100] after any sequence of
\* tracker operations, and an update of an existing task with a progress
\* value stores 0 for a value below 0, 100 for a value above 100, and the
\* value itself otherwise.
C30_ProgressClamped ==
    /\ [](\A t \in DOMAIN tasks : tasks[t].progress \in 0..100)
    /\ [][(/\ lastOp'.op \in {"update_progress", "complete_task"}
            /\ lastOp'.task \in DOMAIN tasks
            /\ lastOp'.progress # Null)
           => LET given == lastOp'.progress
              IN  /\ lastOp'.ret = "True"
                  /\ tasks'[lastOp'.task].progress =
                        (IF given < 0 THEN 0 ELSE IF given > 100 THEN 100 ELSE given)]_vars

\* A completed task, at 100, updated with the progress -5: it stands at 0.
C30_Witness ==
    /\ lastOp.op = "update_progress"
    /\ lastOp.progress = -5
    /\ lastOp.task \in DOMAIN tasks
    /\ tasks[lastOp.task].status = "completed"
    /\ tasks[lastOp.task].progress = 0

\* The step is a pass of the loop that executed an action.
ActionStep ==
    /\ exec_pc = "loop"
    /\ Len(steps') = Len(steps) + 1
    /\ steps'[Len(steps')].type = "action"

\* The loop goes on after the pass of iteration i: to the next pass, or,
\* after the last pass, to the summary tagged as timeout.
LoopContinues(i) ==
    IF i < MAX_ITERATIONS - 1
    THEN exec_pc' = "loop" /\ iteration' = i + 1
    ELSE exec_pc' = "idle" /\ exec_result'.kind = "timeout_summary"

\* The loop stops after the pass: execute returns the summary tagged as
\* completed.
LoopStops == exec_pc' = "idle" /\ exec_result'.kind = "summary"

\* C31: after a pass that executed an action, at the 0-based iteration i of
\* M: an action result with a failure word continues the loop iff i < M - 2,
\* whatever completion words it holds; otherwise a result with a completion
\* word stops the loop, which returns the summary tagged as completed;
\* otherwise the loop continues.
C31_ContinuationDecision ==
    [][ActionStep =>
          LET i == iteration
              action_result == observation'
          IN  IF action_result.fail
              THEN IF i < MAX_ITERATIONS - 2 THEN LoopContinues(i) ELSE LoopStops
              ELSE IF action_result.done THEN LoopStops
              ELSE LoopContinues(i)]_vars

\* A result with a failure word and a completion word, two passes before
\* the end: the loop has gone on.
C31_Witness ==
    /\ exec_pc = "loop"
    /\ observation.fail
    /\ observation.done
    /\ iteration = MAX_ITERATIONS - 2
    /\ Len(steps) = MAX_ITERATIONS - 2

\* C32: a response that begins with the completion marker ends the call at
\* once: one terminal step is recorded, execute returns the text that follows
\* the leading marker, no tool is executed and the generator is not asked
\* again; a response that does not begin with the marker never ends the call
\* in this way.
C32_CompletionExit ==
    [][(exec_pc = "loop" /\ reply'.isText) =>
          IF reply'.marker # "none"
          THEN /\ exec_pc' = "idle"
               /\ exec_result' = Result("completion", reply'.payload = "")
               /\ Len(steps') = Len(steps) + 1
               /\ steps'[Len(steps')].type = "completion"
               /\ observation' = observation
               /\ generate_calls' = generate_calls + 1
          ELSE /\ exec_result'.kind \notin {"completion", "completion_inner"}
               /\ Len(steps') > Len(steps) => steps'[Len(steps')].type = "action"]_vars

\* C33: plan uses the replan template whenever it is given feedback (a
\* non-empty text), whatever the current state; otherwise the with_feedback
\* template when it is given a current state; otherwise the basic one.
C33_TemplatePriority ==
    plan_result.outcome # "none" =>
        LET given(text) == text \in {"state", "feedback"}
        IN  plan_call.template =
              (IF given(plan_call.feedback) THEN "replan"
               ELSE IF given(plan_call.current_state) THEN "with_feedback"
               ELSE "basic")

\* A call with a current state and feedback that planned with the replan
\* template.
C33_Witness ==
    /\ plan_result.outcome = "returned"
    /\ plan_call.current_state = "state"
    /\ plan_call.feedback = "feedback"
    /\ plan_call.template = "replan"

\* The plan was returned by _validate_and_enhance_plan: the response held a
\* JSON object without the key "error".
StructurallyParsed ==
    /\ plan_result.outcome = "returned"
    /\ plan_call.response.form \in {"json", "embedded"}
    /\ "error" \notin plan_call.response.json.has

\* C34: every task of a plan that was parsed as JSON has an id, a
\* description, a tool_type and a priority; a task without id has the id
\* task_<index+1>, without priority the priority normal, without tool_type
\* the tool guessed from the keywords of its description; the strategy
\* defaults to sequential and estimated_time to 30 times the number of
\* tasks; what the response gave is left as it is.
C34_NormalizedPlan ==
    StructurallyParsed =>
        LET parsed == plan_call.response.json
            given == IF "tasks" \in parsed.has THEN parsed.tasks.items ELSE <<>>
            planned == plan_result.tasks
        IN  /\ Len(planned) = Len(given)
            /\ \A i \in 1..Len(planned) :
                  /\ planned[i].kind = "object"
                  /\ planned[i].has = ItemKeys
                  /\ planned[i].description # NoDesc
                  /\ "description" \in given[i].has =>
                        planned[i].description = given[i].description
                  /\ planned[i].id =
                        (IF "id" \in given[i].has THEN "given"
                         ELSE "task_" \o ToString(i))
                  /\ planned[i].priority =
                        (IF "priority" \in given[i].has THEN "given" ELSE "normal")
                  /\ planned[i].tool_type =
                        (IF "tool_type" \in given[i].has THEN "given"
                         ELSE _guess_tool_type(planned[i].description.kw))
            /\ plan_result.strategy =
                  (IF "strategy" \in parsed.has THEN "given" ELSE "sequential")
            /\ plan_result.estimated_time =
                  (IF "estimated_time" \in parsed.has THEN Null
                   ELSE 30 * Len(planned))

\* The number of task records with the given status.
CountTasks(status) == Cardinality({t \in DOMAIN tasks : tasks[t].status = status})

\* C35: the statistics the tracker keeps and persists agree with the live
\* collections after any sequence of tracker operations: total_tasks is the
\* number of task records, completed_tasks and failed_tasks the numbers of
\* records with status completed and failed.
C35_StatsAgree ==
    /\ system_stats.total_tasks = Cardinality(DOMAIN tasks)
    /\ system_stats.completed_tasks = CountTasks("completed")
    /\ system_stats.failed_tasks = CountTasks("failed")

\* C36: in every tracker state each agent record has the status working
\* with a current task, or the status idle without one; the status active of
\* a new record is never left behind by assign_task.
C36_AgentCoherent ==
    \A a \in DOMAIN agents :
        /\ agents[a].status \in {"working", "idle"}
        /\ agents[a].status = "working" <=> agents[a].current_task # Null
        /\ agents[a].status = "idle" <=> agents[a].current_task = Null

\* An agent released from the task it completed: idle, with no current
\* task, the task in its completed list.
C36_Witness ==
    \E a \in DOMAIN agents :
        /\ agents[a].status = "idle"
        /\ agents[a].current_task = Null
        /\ Len(agents[a].assigned_tasks) = 1
        /\ agents[a].completed_tasks = agents[a].assigned_tasks

\* C37: an agent works on at most one running task: in every tracker state
\* a running task that is assigned to an agent is that agent's current task,
\* and the agent has the status working.
C37_OneRunningTask ==
    \A t \in DOMAIN tasks :
        (tasks[t].status = "running" /\ tasks[t].assigned_agent # None) =>
            LET A == tasks[t].assigned_agent
            IN  /\ A \in DOMAIN agents
                /\ agents[A].current_task = t
                /\ agents[A].status = "working"

\* The elements of a list.
Range(list) == {list[i] : i \in 1..Len(list)}

\* C38: with distinct task identifiers, in every tracker state the
\* completed and the failed list of an agent are disjoint, hold no task
\* twice and hold only tasks of the agent's assigned list, and no task is in
\* the completed or failed list of two agents.
C38_AgentLists ==
    /\ \A a \in DOMAIN agents :
          LET done == agents[a].completed_tasks
              failed == agents[a].failed_tasks
          IN  /\ Range(done) \cap Range(failed) = {}
              /\ Cardinality(Range(done)) = Len(done)
              /\ Cardinality(Range(failed)) = Len(failed)
              /\ Range(done) \cup Range(failed) \subseteq Range(agents[a].assigned_tasks)
    /\ \A a, b \in DOMAIN agents :
          a # b =>
             (Range(agents[a].completed_tasks) \cup Range(agents[a].failed_tasks))
                \cap (Range(agents[b].completed_tasks) \cup Range(agents[b].failed_tasks))
             = {}

\* A task that one agent completed, made pending again, assigned to a
\* second agent and failed by it: it is in the first agent's completed list
\* and in no list of the second.
C38_Witness ==
    \E a, b \in DOMAIN agents, t \in DOMAIN tasks :
        /\ a # b
        /\ agents[a].completed_tasks = <<t>>
        /\ tasks[t].assigned_agent = b
        /\ tasks[t].status = "failed"
        /\ t \in Range(agents[b].assigned_tasks)
        /\ agents[b].failed_tasks = <<>>

\* The members of the team that carry subtask i of the plan.
MembersOf(i) == {j \in 1..Len(team) : team[j].task = i}

\* C39: in team mode every subtask of the plan is executed exactly once and
\* contributes one entry to the results, also when two subtasks are mapped
\* to the same agent identity: when execute_multi_agent_task has returned its
\* report, every planned task is carried by exactly one member of the team,
\* and there are as many results as members and as planned tasks.
C39_TeamRunsEverySubtask ==
    orch_result.kind = "team_report" =>
        /\ \A i \in 1..Len(plan_result.tasks) : Cardinality(MembersOf(i)) = 1
        /\ Len(results) = Len(team)
        /\ Len(results) = Len(plan_result.tasks)

\* Two threads whose calls of assign_task have returned, made for the same
\* task, which exists, and for different agents.
Raced(c, d) ==
    /\ c # d
    /\ callers[c].pc = "done" /\ callers[d].pc = "done"
    /\ callers[c].task_id = callers[d].task_id
    /\ callers[c].task_id \in DOMAIN tasks
    /\ callers[c].agent_id # callers[d].agent_id

\* C40: tracker mutations are serialized: of two calls of assign_task made
\* concurrently for the same pending task with different agents, at most one
\* returns true, the task ends assigned to the agent of the call that
\* returned true, and only that agent's record lists the task.
C40_AssignSerialized ==
    \A c, d \in Callers :
        Raced(c, d) =>
            LET t == callers[c].task_id
            IN  /\ ~(callers[c].ret = "True" /\ callers[d].ret = "True")
                /\ callers[c].ret = "True" =>
                      /\ tasks[t].assigned_agent = callers[c].agent_id
                      /\ \A a \in DOMAIN agents :
                            t \in Range(agents[a].assigned_tasks) =>
                                a = callers[c].agent_id

(***************************************************************************)
(* Properties of the actor                                                 *)
(***************************************************************************)
\* C10: whatever the generator answers (tool calls that fail, a completion
\* marker with nothing after it, no completion within the iteration budget),
\* execute returns a string that is not empty, and does not raise.
C10_ExecuteReturnsText ==
    exec_result.kind # "none" =>
        /\ exec_result.kind # "raised"
        /\ ~exec_result.empty

\* C11: one call of execute makes at most max_iterations passes of its loop:
\* it requests the generator at most max_iterations times, records at most
\* max_iterations steps, and it terminates, whatever the generator answers and
\* the tools return.
C11_BoundedLoop ==
    /\ [](/\ iteration < MAX_ITERATIONS
          /\ generate_calls <= MAX_ITERATIONS
          /\ Len(steps) <= MAX_ITERATIONS)
    /\ (exec_pc = "loop" ~> exec_pc = "idle")

\* A call that used its whole budget.
C11_Witness ==
    /\ exec_pc = "idle"
    /\ exec_result.kind = "timeout_summary"
    /\ generate_calls = MAX_ITERATIONS
    /\ Len(steps) = MAX_ITERATIONS

\* A step in which execute returns on a response that is text and does not
\* begin with the completion marker (every earlier response of the call was
\* such a response too, or the call had ended there).
ReturnsWithoutCompletion ==
    /\ exec_pc = "loop"
    /\ exec_pc' = "idle"
    /\ reply'.isText
    /\ ~_is_completion_response(reply')

\* C12: when every response of the generator in one call of execute is a
\* non-completion response, execute returns the summary tagged as timeout and
\* never the one tagged as completed, whatever the tools return.
C12_AlwaysTimeout ==
    [][ReturnsWithoutCompletion => exec_result'.kind = "timeout_summary"]_vars

\* C12, amended: when every response is a non-completion response and no
\* action result stops the loop (a completion word in a result without a
\* failure word, or a failure word in one of the last two passes), execute
\* returns the summary tagged as timeout after max_iterations passes; when a
\* result stops the loop, it returns the summary tagged as completed.
C12_TimeoutUnlessStopped ==
    [][ReturnsWithoutCompletion =>
         IF _should_continue(observation', iteration, MAX_ITERATIONS)
         THEN /\ exec_result'.kind = "timeout_summary"
              /\ generate_calls' = MAX_ITERATIONS
         ELSE exec_result'.kind = "summary"]_vars

\* A call that ran out of passes on tool results that neither failed nor
\* signalled completion.
C12_Witness ==
    /\ exec_pc = "idle"
    /\ exec_result.kind = "timeout_summary"
    /\ reply.isText
    /\ ~_is_completion_response(reply)
    /\ observation.text = "calculated"

\* C13: the status of an actor goes idle -> working -> completed or error
\* within a call of execute and is idle again after the call: whenever no call
\* is in progress, the status is idle.
C13_IdleBetweenCalls ==
    /\ exec_pc = "idle" => actor_status = "idle"
    /\ exec_pc = "loop" => actor_status = "working"

\* C14: during a call of execute the status is working and current_task is
\* the task description; when execute returns, by a result of the loop, by the
\* timeout summary or by a caught exception, current_task is null and the
\* status is completed if the loop returned and error if an exception was
\* caught.
C14_StatusAndCurrentTask ==
    /\ [](/\ exec_pc = "loop" =>
                actor_status = "working" /\ current_task \in {"task", ""}
          /\ exec_pc = "idle" => current_task = None)
    /\ [][/\ (exec_pc = "loop" /\ exec_pc' = "loop") => current_task' = current_task
          /\ (exec_pc = "loop" /\ exec_pc' = "idle") =>
                /\ current_task' = None
                /\ actor_status' = IF exec_result'.kind = "error" THEN "error"
                                   ELSE "completed"
                /\ exec_result'.kind = "error" <=> ~reply'.isText]_vars

\* execute has returned through its except branch.
C14_Witness ==
    /\ exec_pc = "idle"
    /\ exec_result.kind = "error"
    /\ actor_status = "error"
    /\ current_task = None

\* C15: an exception raised inside the loop of execute (the generator's
\* result is not text) is caught: execute returns the error-prefixed string,
\* the call appends exactly one entry to the execution history, with success
\* false, and nothing reaches the caller.
C15_ExceptionCaught ==
    [][/\ (exec_pc = "loop" /\ ~reply'.isText) =>
            /\ exec_pc' = "idle"
            /\ exec_result' = Result("error", FALSE)
            /\ execution_history' =
                  Append(execution_history,
                         [result |-> Result("error", FALSE), success |-> FALSE])
       /\ exec_pc' = "loop" => execution_history' = execution_history]_vars

\* A call that ended in a caught exception after some passes of the loop,
\* on an actor with an earlier entry in its history.
C15_Witness ==
    /\ exec_pc = "idle"
    /\ ~reply.isText
    /\ Len(steps) >= 1
    /\ Len(execution_history) = 2
    /\ ~execution_history[2].success

(***************************************************************************)
(* Properties of the orchestrator                                          *)
(***************************************************************************)
\* C16: the orchestrator never raises and always returns a text: whatever
\* the goal and the generator do, a call of execute_task or of
\* execute_multi_agent_task ends with a returned text, and a report it
\* returns covers every subtask of the plan.
C16_AlwaysReports ==
    /\ orch_result.kind # "raised"
    /\ orch_result.kind \in {"report", "team_report"} =>
          Len(results) = Len(plan_result.tasks)

\* C17: a subtask whose execution failed (execute returned the error-prefixed
\* text, the actor in status error) is entered in results as a failure and
\* its tracker task is marked failed, and the final report counts it among
\* the failures.
C17_FailuresCounted ==
    /\ (/\ orch_pc \in {"create_subtask", "finish", "done"}
        /\ results # <<>>
        /\ exec_result.kind = "error") =>
            /\ ~results[Len(results)]
            /\ tasks[subtask_id].status = "failed"
    /\ (orch_result.kind = "report" /\ exec_result.kind = "error") =>
            orch_result.succeeded < orch_result.total

\* C18: when a call of the orchestrator has returned its report, in
\* sequential mode or in team mode, every subtask of the plan was run and has
\* a tracker record in a terminal status.
C18_EverySubtaskTracked ==
    orch_result.kind \in {"report", "team_report"} =>
        /\ Len(results) = Len(plan_result.tasks)
        /\ Cardinality({t \in DOMAIN tasks :
                           tasks[t].status \in {"completed", "failed", "cancelled"}})
              >= Len(plan_result.tasks)

(***************************************************************************)
(* Properties of the state file                                            *)
(***************************************************************************)
\* C19: round trip: when the tracker's last write of the state file
\* succeeded, a tracker constructed on the same file has the task and agent
\* collections of the original tracker; a tracker constructed while the file
\* is absent has empty collections.
C19_RoundTrip ==
    [][lastOp'.op = "__init__" =>
          /\ save_ok => tasks' = tasks /\ agents' = agents
          /\ disk.state = "absent" => tasks' = EmptyMap /\ agents' = EmptyMap]_vars

\* A tracker constructed anew on a file that was written after an earlier
\* write had failed, holding a task that ran to its end on an agent.
C19_Witness ==
    /\ lastOp.op = "__init__"
    /\ storeFailures = MaxStoreFailures
    /\ disk.state = "written"
    /\ \E t \in DOMAIN tasks :
          /\ tasks[t].status = "completed"
          /\ tasks[t].assigned_agent \in DOMAIN agents
          /\ agents[tasks[t].assigned_agent].completed_tasks # <<>>

\* The step is a tracker operation that succeeded: create_task, an
\* assign_task or update_progress that returned True, clear_completed_tasks.
Mutating ==
    \/ lastOp'.op \in {"create_task", "clear_completed_tasks"}
    \/ lastOp'.ret = "True"

\* The same, a clear_completed_tasks that removed nothing set aside.
MutatingAndChanging ==
    /\ Mutating
    /\ lastOp'.op = "clear_completed_tasks" => lastOp'.task > 0

\* The state file holds the snapshot of the collections after the step,
\* written at the step.
Persisted ==
    /\ disk'.state = "written"
    /\ disk'.timestamp = now
    /\ _load_state(disk') =
          [tasks |-> tasks', agents |-> agents', system_stats |-> system_stats']

\* C20, as stated: an operation that succeeded and changed something rewrites
\* the snapshot, which equals the collections in memory when the store
\* accepted the write; every other operation leaves the state file alone.
C20_RewrittenIffChanged ==
    [][/\ (MutatingAndChanging /\ save_ok') => Persisted
       /\ ~MutatingAndChanging => disk' = disk]_vars

\* C20, amended: clear_completed_tasks rewrites the snapshot also when it
\* removed nothing; the operations that leave the state file alone are those
\* that returned False, and they leave the collections alone as well.
C20_RewrittenOnMutation ==
    [][/\ (Mutating /\ save_ok') => Persisted
       /\ ~Mutating =>
             /\ disk' = disk
             /\ UNCHANGED <<tasks, agents, system_stats>>]_vars

\* clear_completed_tasks has removed nothing from a tracker that holds a
\* task, and the state file was rewritten by it.
C20_Witness ==
    /\ lastOp.op = "clear_completed_tasks"
    /\ lastOp.task = 0
    /\ tasks # EmptyMap
    /\ save_ok
    /\ disk.state = "written"
    /\ disk.timestamp = now - 1

\* The argument lists an operation of the update_progress family passes on.
ArgsOf(op) ==
    IF op = "update_progress" THEN UpdateArgs
    ELSE IF op = "complete_task" THEN {<<100, "completed", "result", None>>}
    ELSE IF op = "fail_task" THEN {<<Null, "failed", None, "error">>}
    ELSE {<<Null, "cancelled", None, "error">>}

\* The step returns what the operation returns, and leaves in memory what the
\* operation leaves, on a store that accepts the write.
AsWithWorkingStore ==
    LET op == lastOp'.op
        t == lastOp'.task
        a == lastOp'.agent
    IN  \/ /\ op = "create_task"
           /\ t = generate_task_id(now)
           /\ lastOp'.ret = "task_id"
           /\ tasks' = Put(tasks, t, NewTask(now))
           /\ agents' = agents
           /\ system_stats' = [system_stats EXCEPT !.total_tasks = @ + 1]
        \/ /\ op = "assign_task"
           /\ AssignAllowed(tasks, t)
           /\ lastOp'.ret = "True"
           /\ tasks' = [tasks EXCEPT ![t] = AssignedTask(@, a, now)]
           /\ a \in DOMAIN agents'
           /\ agents'[a] = AssignedAgent(IF a \in DOMAIN agents THEN agents[a]
                                          ELSE NewAgent(t, now), t)
           /\ \A b \in DOMAIN agents' \ {a} : b \in DOMAIN agents /\ agents'[b] = agents[b]
           /\ system_stats' = IF a \in DOMAIN agents THEN system_stats
                              ELSE [system_stats EXCEPT !.active_agents = @ + 1]
        \/ /\ op \in {"update_progress", "complete_task", "fail_task", "cancel_task"}
           /\ t \in DOMAIN tasks
           /\ lastOp'.ret = "True"
           /\ \E args \in ArgsOf(op) :
                 /\ tasks' = [tasks EXCEPT ![t] =
                                 UpdatedTask(@, args[1], args[2], args[3], args[4], now)]
                 /\ agents' = UpdatedAgents(agents, tasks[t], t, args[2])
                 /\ system_stats' = UpdatedStats(system_stats, tasks[t], args[2])

\* C21: a write of the state file that fails during create_task, assign_task
\* or update_progress does not fail the operation: it returns the value and
\* leaves the tasks, agents and statistics in memory that it returns and
\* leaves with a working store, and nothing is raised.
C21_FailedWriteHarmless ==
    [][(storeFailures' > storeFailures /\ lastOp'.op # "clear_completed_tasks")
          => AsWithWorkingStore]_vars

\* complete_task has returned True after its write failed: the task is
\* completed in memory while the state file still shows it running.
C21_Witness ==
    /\ ~save_ok
    /\ lastOp.op = "complete_task"
    /\ lastOp.ret = "True"
    /\ tasks[lastOp.task].status = "completed"
    /\ disk.state = "written"
    /\ lastOp.task \in DOMAIN disk.tasks
    /\ load_tasks(disk.tasks)[lastOp.task].status = "running"

\* C22: task identifiers are unique: create_task returns an identifier that
\* no task of the collection has, so it replaces no record and the
\* collection grows by one record per call.
C22_UniqueTaskIds ==
    [][lastOp'.op = "create_task" =>
          /\ lastOp'.task \notin DOMAIN tasks
          /\ Cardinality(DOMAIN tasks') = Cardinality(DOMAIN tasks) + 1]_vars

(***************************************************************************)
(* Properties of the factory                                               *)
(***************************************************************************)
\* The keyword-overlap score of a role for a description.
Score(role, task_description) ==
    Cardinality(task_description.kw \cap
                   (IF role = "analyst" THEN analyst_keywords
                    ELSE IF role = "executor" THEN executor_keywords
                    ELSE researcher_keywords))

\* The role of the actor the last create_actor call returned.
SelectedRole == created_agents[factory_call.agent_id].agent_type

\* C23: role selection: a task type that names a role is the role; otherwise
\* the role has the highest score, the executor is chosen only with a score
\* above the analyst's and the researcher only with a score above both.
C23_RoleSelection ==
    factory_call.op = "create_actor" =>
        LET d == factory_call.task_description
            t == factory_call.task_type
        IN  IF t \in agent_templates THEN SelectedRole = t
            ELSE /\ \A role \in agent_templates :
                       Score(SelectedRole, d) >= Score(role, d)
                 /\ SelectedRole = "executor" => Score("executor", d) > Score("analyst", d)
                 /\ SelectedRole = "researcher" =>
                       /\ Score("researcher", d) > Score("analyst", d)
                       /\ Score("researcher", d) > Score("executor", d)

\* The executor chosen on a tie with the researcher, both above the analyst,
\* for a task type that is no role.
C23_Witness ==
    /\ factory_call.op = "create_actor"
    /\ factory_call.task_type = "general"
    /\ factory_call.task_description.kw = {"execute", "search"}
    /\ SelectedRole = "executor"

\* C24: when the task type names no role and the description contains no
\* keyword of any role, the researcher is selected.
C24_DefaultResearcher ==
    (/\ factory_call.op = "create_actor"
     /\ factory_call.task_type \notin agent_templates
     /\ factory_call.task_description.kw = {}) =>
        SelectedRole = "researcher"

\* The step is a call of create_actor.
CreateActorStep ==
    /\ exec_pc = "idle"
    /\ exec_pc' = "idle"
    /\ factory_call'.op = "create_actor"

\* C25: the factory's cache: a create_actor call whose identity is in the
\* cache returns the cached actor with the execution history it has
\* accumulated and leaves the cache as it is; otherwise it adds one new
\* actor under that identity; every cached actor's agent_id is its key, and
\* the actor handed out last is the cached one as long as it is cached.
C25_FactoryCache ==
    /\ [](/\ \A k \in DOMAIN created_agents : created_agents[k].agent_id = k
          /\ (/\ exec_pc = "idle"
              /\ factory_call.op = "create_actor"
              /\ actor_id \in DOMAIN created_agents) =>
                 created_agents[actor_id].execution_history = execution_history)
    /\ [][CreateActorStep =>
            LET id == factory_call'.agent_id
            IN  /\ actor_id' = id
                /\ IF id \in DOMAIN created_agents
                   THEN /\ created_agents' = created_agents
                        /\ execution_history' = created_agents[id].execution_history
                        /\ actor_status' = created_agents[id].status
                   ELSE /\ created_agents' =
                             Put(created_agents, id, NewActor(id, AgentType(id)))
                        /\ execution_history' = <<>>]_vars

\* create_actor has returned, for a second description of the same role and
\* bucket, the cached actor that was run twice, while another actor is
\* cached too.
C25_Witness ==
    /\ exec_pc = "idle"
    /\ factory_call.op = "create_actor"
    /\ factory_call.task_description = Description({"analysis", "calculate"}, -1001)
    /\ actor_id = "analyst_1"
    /\ Len(execution_history) = 2
    /\ DOMAIN created_agents = {"analyst_1", "executor_2"}

(***************************************************************************)
(* Properties of the progress tracker                                      *)
(***************************************************************************)
\* A task record is the same task before and after a step when its identifier
\* is in both collections with the same creation time (create_task replaces the
\* record of an identifier it hands out again).
SameTask(t) ==
    /\ t \in DOMAIN tasks
    /\ t \in DOMAIN tasks'
    /\ tasks'[t].created_time = tasks[t].created_time

NewTaskRecord(t) ==
    /\ t \in DOMAIN tasks'
    /\ ~SameTask(t)

UpdateOps == {"update_progress", "complete_task", "fail_task", "cancel_task"}

\* The status changes the task state machine allows.
LifecycleSteps ==
    {<<"pending", "running">>, <<"pending", "cancelled">>,
     <<"running", "completed">>, <<"running", "failed">>,
     <<"running", "cancelled">>}

\* C1: every task starts pending and its status only changes along
\* pending -> running -> {completed, failed, cancelled}, with cancelled also
\* reachable from pending; a terminal status never changes again.
C1_StatusLifecycle ==
    [][\A t \in DOMAIN tasks' :
          /\ NewTaskRecord(t) => tasks'[t].status = "pending"
          /\ SameTask(t) =>
                \/ tasks'[t].status = tasks[t].status
                \/ <<tasks[t].status, tasks'[t].status>> \in LifecycleSteps]_vars

\* C2: end_time is null on a new task, is set by the first update that puts the
\* task into a terminal status, and once set is never changed by any operation.
C2_EndTimeSetOnce ==
    [][\A t \in DOMAIN tasks' :
          /\ NewTaskRecord(t) => tasks'[t].end_time = Null
          /\ SameTask(t) =>
                /\ tasks[t].end_time # Null =>
                      tasks'[t].end_time = tasks[t].end_time
                /\ tasks[t].end_time = Null =>
                      IF tasks'[t].status \in Terminal
                      THEN tasks'[t].end_time = now
                      ELSE tasks'[t].end_time = Null]_vars

\* C2 witness: fail_task has acted on a task whose end_time an earlier terminal
\* update had set.
C2_Witness ==
    /\ lastOp.op = "fail_task"
    /\ lastOp.ret = "True"
    /\ lastOp.task \in DOMAIN tasks
    /\ tasks[lastOp.task].end_time # Null
    /\ tasks[lastOp.task].end_time < now - 1

\* The tasks whose end_time the step sets, ending in the given status.
Finishing(status) ==
    {t \in DOMAIN tasks' :
        /\ SameTask(t)
        /\ tasks[t].end_time = Null
        /\ tasks'[t].end_time # Null
        /\ tasks'[t].status = status}

\* C3: a step increments completed_tasks (failed_tasks) by the number of tasks
\* it finishes as completed (failed), at most one in all, and a finished task
\* is never unfinished again: a task contributes to the two counters at most
\* once, and repeating complete_task on it adds nothing.
C3_CountedOncePerTask ==
    [][/\ system_stats'.completed_tasks - system_stats.completed_tasks
            = Cardinality(Finishing("completed"))
       /\ system_stats'.failed_tasks - system_stats.failed_tasks
            = Cardinality(Finishing("failed"))
       /\ Cardinality(Finishing("completed")) + Cardinality(Finishing("failed")) <= 1
       /\ \A t \in DOMAIN tasks' :
            SameTask(t) /\ tasks[t].end_time # Null => tasks'[t].end_time # Null]_vars

\* C3 witness: complete_task has been repeated on a completed task and the
\* counter stands at one.
C3_Witness ==
    /\ lastOp.op = "complete_task"
    /\ lastOp.ret = "True"
    /\ lastOp.task \in DOMAIN tasks
    /\ tasks[lastOp.task].status = "completed"
    /\ tasks[lastOp.task].end_time < now - 1
    /\ tasks[lastOp.task].end_time # Null
    /\ system_stats.completed_tasks = 1

\* C4: assign_task on a task that does not exist or is not pending returns
\* false and leaves tasks, agents, statistics and the state file as they were.
C4_AssignRejected ==
    [][(/\ lastOp'.op = "assign_task"
        /\ \/ lastOp'.task \notin DOMAIN tasks
           \/ tasks[lastOp'.task].status # "pending")
       => /\ lastOp'.ret = "False"
          /\ tasks' = tasks
          /\ agents' = agents
          /\ system_stats' = system_stats
          /\ disk' = disk]_vars

\* C4 witness: assign_task has been refused on a running task.
C4_Witness ==
    /\ lastOp.op = "assign_task"
    /\ lastOp.ret = "False"
    /\ lastOp.task \in DOMAIN tasks
    /\ tasks[lastOp.task].status = "running"

\* C5: assign_task(T, A) on a pending task returns true; T is then running,
\* assigned to A, with start_time set; A's record exists, is working on T and
\* has T appended to its assigned list; no other task record is modified.
C5_AssignEffect ==
    [][(/\ lastOp'.op = "assign_task"
        /\ lastOp'.task \in DOMAIN tasks
        /\ tasks[lastOp'.task].status = "pending")
       => LET T == lastOp'.task
              A == lastOp'.agent
          IN  /\ lastOp'.ret = "True"
              /\ DOMAIN tasks' = DOMAIN tasks
              /\ tasks'[T].status = "running"
              /\ tasks'[T].assigned_agent = A
              /\ tasks'[T].start_time # Null
              /\ A \in DOMAIN agents'
              /\ agents'[A].status = "working"
              /\ agents'[A].current_task = T
              /\ agents'[A].assigned_tasks =
                    Append(IF A \in DOMAIN agents
                           THEN agents[A].assigned_tasks ELSE <<>>, T)
              /\ \A u \in DOMAIN tasks \ {T} : tasks'[u] = tasks[u]]_vars

\* C5 witness: assign_task has given a second task to an agent seen before.
C5_Witness ==
    /\ lastOp.op = "assign_task"
    /\ lastOp.ret = "True"
    /\ lastOp.agent \in DOMAIN agents
    /\ Len(agents[lastOp.agent].assigned_tasks) = 2
    /\ agents[lastOp.agent].current_task = lastOp.task

\* C6: when update_progress puts a task that has an assigned agent into a
\* terminal status, the agent's current_task is cleared, its status becomes
\* idle, and the task id is appended to its completed list (status completed),
\* to its failed list (status failed), to neither (status cancelled).
C6_AgentReleased ==
    [][\A t \in DOMAIN tasks' :
          (/\ lastOp'.op \in UpdateOps
           /\ lastOp'.task = t
           /\ SameTask(t)
           /\ tasks[t].assigned_agent \in DOMAIN agents
           /\ tasks'[t].status \in Terminal
           /\ tasks'[t].status # tasks[t].status)
          => LET A == tasks[t].assigned_agent
                 s == tasks'[t].status
             IN  /\ agents'[A].current_task = Null
                 /\ agents'[A].status = "idle"
                 /\ agents'[A].completed_tasks =
                       IF s = "completed" THEN Append(agents[A].completed_tasks, t)
                       ELSE agents[A].completed_tasks
                 /\ agents'[A].failed_tasks =
                       IF s = "failed" THEN Append(agents[A].failed_tasks, t)
                       ELSE agents[A].failed_tasks]_vars

(***************************************************************************)
(* Properties of the orchestrator                                          *)
(***************************************************************************)
\* C9: when the generator fails, after its retries, while plan is running,
\* execute_task creates no subtask in the tracker, has no actor execute
\* anything, and returns a failure result for the goal.
C9_PlanningFailureFailsGoal ==
    generate_failed =>
        /\ subtask_id = Null
        /\ exec_calls = 0
        /\ orch_pc = "done" => orch_result.kind \in {"error", "planning_failed"}

====
